---- MODULE Spec2Model ----
(***************************************************************************)
(* Image layout, subresource query and image-view construction of the      *)
(* Intel Vulkan driver (src/intel/vulkan/anv_image.c).                     *)
(*                                                                         *)
(* Bit masks are modelled as sets of bit names, handles as small integers, *)
(* a zeroed C structure as a record of zeros.  The geometry calculator     *)
(* (isl_surf_init) and the format tables are external: their answers are   *)
(* inputs of the actions, drawn from the bounded sets defined below.       *)
(***************************************************************************)
EXTENDS Integers, Sequences, FiniteSets, TLC

VARIABLES
  build,    \* "debug": assert() and anv_assert() compiled in; "release": compiled out
  proc,     \* "running", or "aborted" once an assert() has failed
  stderr,   \* the messages anv_assert() has printed
  image,    \* [ImageIds -> struct anv_image, with the position of its anv_image_create call]
  last,     \* the most recent call: its arguments, what it returned and wrote
  device,   \* struct anv_device: the fields of info this file reads
  view,     \* [ViewIds -> struct anv_image_view]
  surface_state_pool   \* the offsets allocated from device->surface_state_pool

vars == <<build, proc, stderr, image, last, device, view, surface_state_pool>>

\* what no step of anv_image_create and no query touches
viewvars == <<device, view, surface_state_pool>>

----------------------------------------------------------------------------
(* Bounds of the model *)

\* the largest base level and base layer of a view range
MaxBase == 2
\* the largest level count and layer count of a view range
MaxCount == 3
\* largest surface size the geometry calculator answers
MaxSize == 3
\* the geometry calculator answers alignments 2^0 .. 2^MaxAlignLog
MaxAlignLog == 2
\* the number of surface states the surface state pool can hand out
PoolCapacity == 5

\* the largest size of a buffer and the largest offset it is bound at
MaxBufferSize == 4

MaxBufferOffset == 2

----------------------------------------------------------------------------
(* Small helpers *)

MAX(a, b) == IF a > b THEN a ELSE b

RECURSIVE Pow2(_)
Pow2(n) == IF n = 0 THEN 1 ELSE 2 * Pow2(n - 1)

\* (v + a - 1) & ~(a - 1), for a a power of two; a = 0 masks everything away
align_u32(v, a) == IF a = 0 THEN 0 ELSE ((v + a - 1) \div a) * a

----------------------------------------------------------------------------
(* Formats: the fields of struct anv_format this file reads *)

Layout(name, bs, bd, compressed) ==
  [name |-> name, bs |-> bs, bd |-> bd, compressed |-> compressed]

RGBA == [r |-> 0, g |-> 1, b |-> 2, a |-> 3]

Format(name, has_depth, has_stencil, bs) ==
  [name |-> name, has_depth |-> has_depth, has_stencil |-> has_stencil,
   isl_format |-> Layout(name, bs, 1, FALSE), swizzle |-> RGBA]

R8G8B8A8_UNORM == Format("R8G8B8A8_UNORM", FALSE, FALSE, 4)

R32G32B32A32_SFLOAT == Format("R32G32B32A32_SFLOAT", FALSE, FALSE, 16)

D32_SFLOAT == Format("D32_SFLOAT", TRUE, FALSE, 4)

S8_UINT == Format("S8_UINT", FALSE, TRUE, 1)

D24_UNORM_S8_UINT == Format("D24_UNORM_S8_UINT", TRUE, TRUE, 4)

NoFormat == Format("", FALSE, FALSE, 0)

R16G16B16A16_UINT == Format("R16G16B16A16_UINT", FALSE, FALSE, 8)

\* block-compressed layouts: 8 bytes a block, one and two texels deep
BC1_RGB_UNORM_BLOCK ==
  [Format("BC1_RGB_UNORM_BLOCK", FALSE, FALSE, 8)
     EXCEPT !.isl_format = Layout("BC1_RGB_UNORM_BLOCK", 8, 1, TRUE)]

BLOCK_4X4X2 ==
  [Format("BLOCK_4X4X2", FALSE, FALSE, 8)
     EXCEPT !.isl_format = Layout("BLOCK_4X4X2", 8, 2, TRUE)]

ImageFormats == {R8G8B8A8_UNORM, D32_SFLOAT, S8_UINT, D24_UNORM_S8_UINT}

anv_format_is_color(format) == ~format.has_depth /\ ~format.has_stencil

anv_format_is_depth_or_stencil(format) == format.has_depth \/ format.has_stencil

----------------------------------------------------------------------------
(* choose_isl_surf_usage *)

\* transfers are not taken for sampling reads
MutUsageBitsNoTransferSrc(vk_usage) ==
  {"DISABLE_AUX"}
  \cup (IF "SAMPLED" \in vk_usage THEN {"TEXTURE"} ELSE {})
  \cup (IF "INPUT_ATTACHMENT" \in vk_usage THEN {"TEXTURE"} ELSE {})
  \cup (IF "COLOR_ATTACHMENT" \in vk_usage THEN {"RENDER_TARGET", "CUBE"} ELSE {})
  \cup (IF "TRANSFER_DST" \in vk_usage THEN {"RENDER_TARGET"} ELSE {})

\* the bits set outside the depth/stencil switch
choose_isl_surf_usage_bits(vk_usage) ==
  {"DISABLE_AUX"}
  \cup (IF "SAMPLED" \in vk_usage THEN {"TEXTURE"} ELSE {})
  \cup (IF "INPUT_ATTACHMENT" \in vk_usage THEN {"TEXTURE"} ELSE {})
  \cup (IF "COLOR_ATTACHMENT" \in vk_usage THEN {"RENDER_TARGET"} ELSE {})
  \* VK_IMAGE_CREATE_CUBE_COMPATIBLE_BIT has the value of
  \* VK_IMAGE_USAGE_COLOR_ATTACHMENT_BIT (0x10)
  \cup (IF "COLOR_ATTACHMENT" \in vk_usage THEN {"CUBE"} ELSE {})
  \cup (IF "TRANSFER_SRC" \in vk_usage THEN {"TEXTURE"} ELSE {})
  \cup (IF "TRANSFER_DST" \in vk_usage THEN {"RENDER_TARGET"} ELSE {})

\* The outcomes of the call: [crash, bits].  The switch's default is
\* unreachable(): an abort in a debug build, undefined in a release build,
\* where the build may crash or run on through either case or none.
choose_isl_surf_usage(vk_usage, aspect) ==
  LET base == choose_isl_surf_usage_bits(vk_usage)
      ret(bits) == [crash |-> FALSE, bits |-> base \cup bits]
      crash == [crash |-> TRUE, bits |-> {}]
  IN  IF "DEPTH_STENCIL_ATTACHMENT" \notin vk_usage THEN {ret({})}
      ELSE IF aspect = "DEPTH" THEN {ret({"DEPTH"})}
      ELSE IF aspect = "STENCIL" THEN {ret({"STENCIL"})}
      ELSE IF build = "debug" THEN {crash}
      ELSE {crash, ret({}), ret({"DEPTH"}), ret({"STENCIL"})}

----------------------------------------------------------------------------
(* struct anv_surface, struct anv_image *)

ZeroIsl == [size |-> 0, alignment |-> 0, row_pitch |-> 0,
            array_pitch_el_rows |-> 0, usage |-> {}, format |-> NoFormat.isl_format]

ZeroSurface == [isl |-> ZeroIsl, offset |-> 0]

ZeroExtent == [width |-> 0, height |-> 0, depth |-> 0]

NoInfo == [imageType |-> "", format |-> NoFormat, extent |-> ZeroExtent,
           mipLevels |-> 0, arrayLayers |-> 0, samples |-> 0,
           tiling |-> "", usage |-> {}]

\* image->bo == NULL
NoBo == [size |-> 0]

\* pc: the position of the anv_image_create call that owns the record;
\* placed: the aspects make_surface has laid out, in order (history);
\* rejected: the aspects isl_surf_init has answered false for (history);
\* handle: whether *pImage has been written
NoImage ==
  [pc |-> "free", info |-> NoInfo, handle |-> FALSE, result |-> "",
   placed |-> <<>>, rejected |-> {},
   type |-> "", extent |-> ZeroExtent, format |-> NoFormat, levels |-> 0,
   array_size |-> 0, samples |-> 0, usage |-> {}, tiling |-> "",
   size |-> 0, alignment |-> 0, bo |-> NoBo, offset |-> 0,
   color_surface |-> ZeroSurface, depth_surface |-> ZeroSurface,
   stencil_surface |-> ZeroSurface]

ImageIds == {1, 2}

\* a struct anv_image_view that does not exist
NoView == [live |-> FALSE]

ViewIds == {1, 2}

get_surface_field(aspect) ==
  CASE aspect = "COLOR" -> "color_surface"
    [] aspect = "DEPTH" -> "depth_surface"
    [] aspect = "STENCIL" -> "stencil_surface"

get_surface(img, aspect) == img[get_surface_field(aspect)]

----------------------------------------------------------------------------
(* anv_image_get_full_usage *)

\* the multisample rule applied last, to the widened usage
MutFullUsageResolveLast(info, format) ==
  LET u0 == info.usage
      u1 == IF "TRANSFER_SRC" \in u0 THEN u0 \cup {"SAMPLED"} ELSE u0
      u2 == IF "TRANSFER_DST" \in u1
            THEN u1 \cup {"COLOR_ATTACHMENT"}
                 \cup (IF anv_format_is_depth_or_stencil(format)
                       THEN {"DEPTH_STENCIL_ATTACHMENT"} ELSE {})
            ELSE u1
      u3 == IF info.samples > 1 /\ "COLOR_ATTACHMENT" \in u2
            THEN u2 \cup {"SAMPLED"} ELSE u2
  IN  u3

anv_image_get_full_usage(info, format) ==
  LET u0 == info.usage
      u1 == IF info.samples > 1 /\ "COLOR_ATTACHMENT" \in u0
            THEN u0 \cup {"SAMPLED"} ELSE u0
      u2 == IF "TRANSFER_SRC" \in u1 THEN u1 \cup {"SAMPLED"} ELSE u1
      u3 == IF "TRANSFER_DST" \in u2
            THEN u2 \cup {"COLOR_ATTACHMENT"}
                 \cup (IF anv_format_is_depth_or_stencil(format)
                       THEN {"DEPTH_STENCIL_ATTACHMENT"} ELSE {})
            ELSE u2
  IN  u3

----------------------------------------------------------------------------
(* anv_image_create, one action per step of the call *)

\* the anv_assert()s on the create info: each failure prints, none stops
anv_image_create_asserts(info) ==
  IF build # "debug" THEN {}
  ELSE (IF info.mipLevels > 0 THEN {} ELSE {"pCreateInfo->mipLevels > 0"})
       \cup (IF info.arrayLayers > 0 THEN {} ELSE {"pCreateInfo->arrayLayers > 0"})
       \cup (IF info.samples > 0 THEN {} ELSE {"pCreateInfo->samples > 0"})
       \cup (IF info.extent.width > 0 THEN {} ELSE {"pCreateInfo->extent.width > 0"})
       \cup (IF info.extent.height > 0 THEN {} ELSE {"pCreateInfo->extent.height > 0"})
       \cup (IF info.extent.depth > 0 THEN {} ELSE {"pCreateInfo->extent.depth > 0"})

MutFirstAspectSkipsDepth(format) ==
  IF anv_format_is_color(format) THEN "color"
  ELSE IF format.has_stencil THEN "stencil"
  ELSE IF format.has_depth THEN "depth"
  ELSE "ret"

\* the aspect laid out first, or "ret" when there is none
first_aspect(format) ==
  IF anv_format_is_color(format) THEN "color"
  ELSE IF format.has_depth THEN "depth"
  ELSE IF format.has_stencil THEN "stencil"
  ELSE "ret"

\* the position after make_surface of the aspect
next_aspect(format, aspect) ==
  IF aspect = "DEPTH" /\ format.has_stencil THEN "stencil" ELSE "ret"

\* lines 218-245: the assertions, the allocation, memset and the fields
\* copied from the create info
\* alloc_ok: whether anv_alloc2 returns memory
anv_image_create_alloc(i, info, alloc_ok) ==
  /\ proc = "running"
  /\ image[i].pc = "free"
  /\ stderr' = stderr \cup anv_image_create_asserts(info)
  /\ image' = IF ~alloc_ok THEN image
               ELSE [image EXCEPT ![i] =
       [NoImage EXCEPT !.pc = "usage", !.info = info,
                       !.type = info.imageType, !.extent = info.extent,
                       !.format = info.format, !.levels = info.mipLevels,
                       !.array_size = info.arrayLayers,
                       !.samples = info.samples]]
  /\ last' = [op |-> "anv_image_create", image |-> i,
              result |-> IF alloc_ok THEN "" ELSE "VK_ERROR_OUT_OF_HOST_MEMORY"]
  /\ UNCHANGED <<build, proc, viewvars>>

\* lines 246-247, and the branch to the first make_surface
anv_image_create_usage(i) ==
  /\ proc = "running"
  /\ image[i].pc = "usage"
  /\ image' = [image EXCEPT
       ![i].usage = anv_image_get_full_usage(image[i].info, image[i].format),
       ![i].tiling = image[i].info.tiling,
       ![i].pc = first_aspect(image[i].format)]
  /\ UNCHANGED <<build, proc, stderr, last, viewvars>>

\* the extent make_surface stores in the image
make_surface_extent(info) ==
  CASE info.imageType = "1D" ->
         [width |-> info.extent.width, height |-> 1, depth |-> 1]
    [] info.imageType = "2D" ->
         [width |-> info.extent.width, height |-> info.extent.height, depth |-> 1]
    [] OTHER -> info.extent

\* lines 164-166: the surface placed behind what the image holds so far
MutPlaceNoAlign(img, isl) ==
  LET offset == img.size
  IN  [offset |-> offset, size |-> offset + isl.size,
       alignment |-> MAX(img.alignment, isl.alignment)]

MutPlaceAlignToImage(img, isl) ==
  LET offset == align_u32(img.size, MAX(img.alignment, isl.alignment))
  IN  [offset |-> offset, size |-> offset + isl.size,
       alignment |-> MAX(img.alignment, isl.alignment)]

MutPlaceLastAlignment(img, isl) ==
  LET offset == align_u32(img.size, isl.alignment)
  IN  [offset |-> offset, size |-> offset + isl.size,
       alignment |-> isl.alignment]

\* the running size is kept in one place for all images
MutPlaceSharedSize(img, isl) ==
  LET size == CHOOSE n \in {image[j].size : j \in ImageIds} :
                \A j \in ImageIds : image[j].size <= n
      offset == align_u32(size, isl.alignment)
  IN  [offset |-> offset, size |-> offset + isl.size,
       alignment |-> MAX(img.alignment, isl.alignment)]

place_surface(img, isl) ==
  LET offset == align_u32(img.size, isl.alignment)
  IN  [offset |-> offset, size |-> offset + isl.size,
       alignment |-> MAX(img.alignment, isl.alignment)]

\* make_surface for the aspect the call has reached.  oracle is the answer of
\* isl_surf_init: [ok, isl]; when it fails the surface stays as it was.
\* assert(ok) aborts a debug build and is compiled out of a release build.
make_surface(i, aspect, oracle) ==
  \E su \in choose_isl_surf_usage(image[i].usage, aspect) :
  LET img == image[i]
      f == get_surface_field(aspect)
      isl == IF oracle.ok
             THEN [oracle.isl EXCEPT !.usage = su.bits,
                                     !.format = img.info.format.isl_format]
             ELSE img[f].isl
      p == place_surface(img, isl)
  IN  /\ proc = "running"
      /\ IF su.crash \/ (~oracle.ok /\ build = "debug")
         THEN /\ proc' = "aborted"
              /\ image' = [image EXCEPT
                   ![i].extent = make_surface_extent(img.info),
                   ![i].rejected = IF su.crash \/ oracle.ok THEN @
                                   ELSE @ \cup {aspect}]
         ELSE /\ proc' = proc
              /\ image' = [image EXCEPT ![i] =
                   [img EXCEPT ![f] = [isl |-> isl, offset |-> p.offset],
                               !.extent = make_surface_extent(img.info),
                               !.size = p.size,
                               !.alignment = p.alignment,
                               !.placed = IF oracle.ok
                                          THEN Append(img.placed, aspect)
                                          ELSE img.placed,
                               !.rejected = IF oracle.ok THEN @
                                            ELSE @ \cup {aspect},
                               !.pc = next_aspect(img.format, aspect)]]
      /\ UNCHANGED <<build, stderr, last, viewvars>>

make_surface_color(i, oracle) ==
  image[i].pc = "color" /\ make_surface(i, "COLOR", oracle)

make_surface_depth(i, oracle) ==
  image[i].pc = "depth" /\ make_surface(i, "DEPTH", oracle)

make_surface_stencil(i, oracle) ==
  image[i].pc = "stencil" /\ make_surface(i, "STENCIL", oracle)

\* lines 270-272
anv_image_create_return(i) ==
  /\ proc = "running"
  /\ image[i].pc = "ret"
  /\ image' = [image EXCEPT ![i].pc = "done", ![i].handle = TRUE,
                            ![i].result = "VK_SUCCESS"]
  /\ UNCHANGED <<build, proc, stderr, last, viewvars>>

\* The caller binds memory by storing the buffer object and the offset in
\* the image.
anv_BindImageMemory(i, bo, offset) ==
  /\ proc = "running"
  /\ image[i].pc = "done"
  /\ image[i].bo = NoBo
  /\ image' = [image EXCEPT ![i].bo = bo, ![i].offset = offset]
  /\ last' = [op |-> "anv_BindImageMemory", image |-> i]
  /\ UNCHANGED <<build, proc, stderr, viewvars>>

\* anv_DestroyImage; the caller has destroyed the image's views before
anv_DestroyImage(i) ==
  /\ proc = "running"
  /\ image[i].pc = "done"
  /\ \A v \in ViewIds : view[v] = NoView
  /\ image' = [image EXCEPT ![i] = NoImage]
  /\ last' = [op |-> "anv_DestroyImage", image |-> i]
  /\ UNCHANGED <<build, proc, stderr, viewvars>>

----------------------------------------------------------------------------
(* anv_GetImageSubresourceLayout *)

\* array_pitch_el_rows * row_pitch
isl_surf_get_array_pitch(isl) == isl.array_pitch_el_rows * isl.row_pitch

\* *pLayout before the call writes it
NoLayout == [offset |-> -1, rowPitch |-> -1, depthPitch |-> -1,
             arrayPitch |-> -1, size |-> -1]

\* the anv_assert()s on the level and the layer: each failure prints, none stops
anv_surface_get_subresource_layout_asserts(subresource) ==
  IF build # "debug" THEN {}
  ELSE (IF subresource.mipLevel = 0 THEN {} ELSE {"subresource->mipLevel == 0"})
       \cup (IF subresource.arrayLayer = 0 THEN {}
             ELSE {"subresource->arrayLayer == 0"})

MutLayoutRowPitchAsArrayPitch(surface) ==
  [offset |-> surface.offset,
   rowPitch |-> surface.isl.row_pitch,
   depthPitch |-> surface.isl.row_pitch,
   arrayPitch |-> surface.isl.row_pitch,
   size |-> surface.isl.size]

\* what the call writes to *layout, whatever the level and the layer
anv_surface_get_subresource_layout(surface) ==
  [offset |-> surface.offset,
   rowPitch |-> surface.isl.row_pitch,
   depthPitch |-> isl_surf_get_array_pitch(surface.isl),
   arrayPitch |-> isl_surf_get_array_pitch(surface.isl),
   size |-> surface.isl.size]

MutStencilQueryReadsDepth(aspectMask) ==
  CASE aspectMask = {"COLOR"} -> "color_surface"
    [] aspectMask = {"DEPTH"} -> "depth_surface"
    [] aspectMask = {"STENCIL"} -> "depth_surface"
    [] OTHER -> ""

\* the switch on pSubresource->aspectMask: the surface, or "" for the default
subresource_surface(aspectMask) ==
  CASE aspectMask = {"COLOR"} -> "color_surface"
    [] aspectMask = {"DEPTH"} -> "depth_surface"
    [] aspectMask = {"STENCIL"} -> "stencil_surface"
    [] OTHER -> ""

\* The call returns nothing.  Its two assert()s abort a debug build; in a
\* release build the default case leaves *pLayout unwritten.
anv_GetImageSubresourceLayout(i, subresource) ==
  LET f == subresource_surface(subresource.aspectMask)
      call == [op |-> "anv_GetImageSubresourceLayout", image |-> i,
               subresource |-> subresource]
  IN  /\ proc = "running"
      /\ image[i].pc = "done"
      /\ IF build = "debug"
            /\ (Cardinality(subresource.aspectMask) # 1 \/ f = "")
         THEN /\ proc' = "aborted"
              /\ last' = call @@
                          [result |-> "abort", layout |-> NoLayout]
              /\ stderr' = stderr
         ELSE IF f = ""
         THEN /\ proc' = proc
              /\ last' = call @@ [result |-> "returned", layout |-> NoLayout]
              /\ stderr' = stderr
         ELSE /\ proc' = proc
              /\ last' = call @@
                   [result |-> "returned",
                    layout |-> anv_surface_get_subresource_layout(image[i][f])]
              /\ stderr' = stderr
                   \cup anv_surface_get_subresource_layout_asserts(subresource)
      /\ UNCHANGED <<build, image, viewvars>>

----------------------------------------------------------------------------
(* struct anv_image_view and its three struct anv_state *)

\* the contents of a surface state nothing has written
NoData == [kind |-> "none"]

\* a slot that is not built: only alloc_size is written
UnbuiltState == [alloc_size |-> 0, offset |-> -1, from |-> "", data |-> NoData]

AllUsage == {"TRANSFER_SRC", "TRANSFER_DST", "SAMPLED", "STORAGE",
             "COLOR_ATTACHMENT", "DEPTH_STENCIL_ATTACHMENT",
             "TRANSIENT_ATTACHMENT", "INPUT_ATTACHMENT"}

anv_minify(n, levels) ==
  IF n = 0 THEN 0 ELSE MAX(n \div Pow2(levels), 1)

DIV_ROUND_UP(n, d) == (n + d - 1) \div d

isl_surf_get_array_pitch_el_rows(isl) == isl.array_pitch_el_rows

isl_surf_get_row_pitch_el(isl) == isl.row_pitch \div isl.format.bs

isl_format_is_compressed(format) == format.compressed

\* the isl format of a view: the format table's entry
anv_get_isl_format(vk_format) == vk_format.isl_format

----------------------------------------------------------------------------
(* anv_image_get_surface_for_aspect_mask *)

\* the color aspect always selects the color surface
MutSelectorColorIsColor(img, aspect_mask) ==
  LET f == img.format
      unreachable == IF build = "debug" THEN {"abort"}
                     ELSE {"crash", "color_surface", "depth_surface",
                           "stencil_surface"}
  IN  CASE aspect_mask = {"COLOR"} -> {"color_surface"}
        [] aspect_mask = {"DEPTH"} ->
             IF build = "debug" /\ ~f.has_depth THEN {"abort"}
             ELSE {"depth_surface"}
        [] aspect_mask = {"STENCIL"} ->
             IF build = "debug" /\ ~f.has_stencil THEN {"abort"}
             ELSE {"stencil_surface"}
        [] aspect_mask = {"DEPTH", "STENCIL"} ->
             IF f.has_depth /\ f.has_stencil THEN {"depth_surface"}
             ELSE IF f.has_depth THEN {"depth_surface"}
             ELSE IF f.has_stencil THEN {"stencil_surface"}
             ELSE unreachable
        [] OTHER -> unreachable

\* The outcomes of the call: the surface returned, "abort" (a failed assert()
\* of a debug build) or "crash".  unreachable() aborts a debug build and is
\* undefined in a release build, which may crash or return any surface.
anv_image_get_surface_for_aspect_mask(img, aspect_mask) ==
  LET f == img.format
      unreachable == IF build = "debug" THEN {"abort"}
                     ELSE {"crash", "color_surface", "depth_surface",
                           "stencil_surface"}
  IN  CASE aspect_mask = {"COLOR"} ->
             {IF f.has_depth /\ f.has_stencil THEN "depth_surface"
              ELSE IF f.has_depth THEN "depth_surface"
              ELSE IF f.has_stencil THEN "stencil_surface"
              ELSE "color_surface"}
        [] aspect_mask = {"DEPTH"} ->
             IF build = "debug" /\ ~f.has_depth THEN {"abort"}
             ELSE {"depth_surface"}
        [] aspect_mask = {"STENCIL"} ->
             IF build = "debug" /\ ~f.has_stencil THEN {"abort"}
             ELSE {"stencil_surface"}
        [] aspect_mask = {"DEPTH", "STENCIL"} ->
             IF f.has_depth /\ f.has_stencil THEN {"depth_surface"}
             ELSE IF f.has_depth THEN {"depth_surface"}
             ELSE IF f.has_stencil THEN {"stencil_surface"}
             ELSE unreachable
        [] OTHER -> unreachable

----------------------------------------------------------------------------
(* remap_swizzle, has_matching_storage_typed_format, alloc_surface_state *)

ChannelSelect == <<"RED", "GREEN", "BLUE", "ALPHA">>

\* an identity request selects the channel's own position, whatever the
\* format's order
MutRemapIdentityRaw(swizzle, component, format_swizzle) ==
  CASE swizzle = "IDENTITY" ->
         (CASE component = "R" -> "RED" [] component = "G" -> "GREEN"
            [] component = "B" -> "BLUE" [] component = "A" -> "ALPHA")
    [] swizzle = "ZERO" -> "ZERO"
    [] swizzle = "ONE" -> "ONE"
    [] swizzle = "R" -> ChannelSelect[1 + format_swizzle.r]
    [] swizzle = "G" -> ChannelSelect[1 + format_swizzle.g]
    [] swizzle = "B" -> ChannelSelect[1 + format_swizzle.b]
    [] swizzle = "A" -> ChannelSelect[1 + format_swizzle.a]

\* ISL_CHANNEL_SELECT_RED + format_swizzle.x
remap_swizzle(swizzle, component, format_swizzle) ==
  LET sw == IF swizzle = "IDENTITY" THEN component ELSE swizzle
  IN  CASE sw = "ZERO" -> "ZERO"
        [] sw = "ONE" -> "ONE"
        [] sw = "R" -> ChannelSelect[1 + format_swizzle.r]
        [] sw = "G" -> ChannelSelect[1 + format_swizzle.g]
        [] sw = "B" -> ChannelSelect[1 + format_swizzle.b]
        [] sw = "A" -> ChannelSelect[1 + format_swizzle.a]

has_matching_storage_typed_format(dev, format) ==
  \/ format.bs <= 4
  \/ (format.bs <= 8 /\ (dev.info.gen >= 8 \/ dev.info.is_haswell))
  \/ dev.info.gen >= 9

\* the lowest offset the pool has not handed out
anv_state_pool_alloc(pool) ==
  CHOOSE k \in 0..Cardinality(pool) :
    k \notin pool /\ \A j \in 0..(k - 1) : j \in pool

\* the pool has no state left to hand out
anv_state_pool_exhausted(pool) == Cardinality(pool) >= PoolCapacity

\* ctx: [pool, n, log], the surface state pool, the number of states taken
\* from the command buffer and the events of the call so far.  The state
\* comes from the command buffer when there is one, else from the pool.
alloc_surface_state(ctx, cmd_buffer) ==
  IF cmd_buffer
  THEN [alloc_size |-> 64, offset |-> ctx.n, from |-> "cmd_buffer",
        data |-> NoData]
  ELSE [alloc_size |-> 64, offset |-> anv_state_pool_alloc(ctx.pool),
        from |-> "surface_state_pool", data |-> NoData]

----------------------------------------------------------------------------
(* anv_image_view_init *)

\* lines 487-505: the assert() that fails first, or "" when all hold.  The
\* layer sums are unsigned: base + count - 1 wraps to 0xffffffff when both
\* are 0.
anv_image_view_init_asserts(img, range) ==
  LET last_layer_ok(bound) ==
        range.baseArrayLayer + range.layerCount # 0
        /\ range.baseArrayLayer + range.layerCount - 1 <= bound
  IN  IF ~(range.layerCount > 0) THEN "range->layerCount > 0"
      ELSE IF ~(range.baseMipLevel < img.levels)
      THEN "range->baseMipLevel < image->levels"
      ELSE IF img.usage \cap {"SAMPLED", "STORAGE", "COLOR_ATTACHMENT",
                              "DEPTH_STENCIL_ATTACHMENT"} = {}
      THEN "image->usage & (...)"
      ELSE IF img.type \in {"1D", "2D"} /\ ~last_layer_ok(img.array_size)
      THEN "range->baseArrayLayer + range->layerCount - 1 <= image->array_size"
      ELSE IF img.type = "3D"
              /\ ~last_layer_ok(anv_minify(img.extent.depth, range.baseMipLevel))
      THEN "range->baseArrayLayer + range->layerCount - 1 <= anv_minify(...)"
      ELSE IF img.type \notin {"1D", "2D", "3D"} THEN "bad VkImageType"
      ELSE ""

\* lines 525-541
view_isl_view(info, format, swizzle, compressed_reinterpret) ==
  LET range == info.subresourceRange
  IN  [format |-> format,
       base_level |-> IF compressed_reinterpret THEN 0 ELSE range.baseMipLevel,
       levels |-> range.levelCount,
       base_array_layer |-> IF compressed_reinterpret THEN 0
                            ELSE range.baseArrayLayer,
       array_len |-> range.layerCount,
       channel_select |->
         <<remap_swizzle(info.components.r, "R", swizzle),
           remap_swizzle(info.components.g, "G", swizzle),
           remap_swizzle(info.components.b, "B", swizzle),
           remap_swizzle(info.components.a, "A", swizzle)>>]

\* the level-0 extent is the image's extent whatever the formats
MutLevel0ExtentOfImage(img, surface, range, compressed_reinterpret) ==
  [width |-> img.extent.width, height |-> img.extent.height,
   depth |-> img.extent.depth]

\* lines 543-565
view_level0_extent_px(img, surface, range, compressed_reinterpret) ==
  IF compressed_reinterpret
  THEN [width |-> isl_surf_get_row_pitch_el(surface.isl),
        height |-> isl_surf_get_array_pitch_el_rows(surface.isl) * img.array_size,
        depth |-> DIV_ROUND_UP(anv_minify(img.extent.depth, range.baseMipLevel),
                               img.format.isl_format.bd)]
  ELSE [width |-> img.extent.width, height |-> img.extent.height,
        depth |-> img.extent.depth]

\* isl_surf_fill_state: what the surface state describes
isl_surf_fill_state(surface_field, isl_view, usage, level0_extent_px) ==
  [kind |-> "surface", surf |-> surface_field,
   view |-> isl_view @@ [usage |-> usage],
   level0_extent_px |-> level0_extent_px]

\* anv_fill_buffer_surface_state
anv_fill_buffer_surface_state(format, offset, range, stride) ==
  [kind |-> "buffer", format |-> format, offset |-> offset, range |-> range,
   stride |-> stride]

MutSlotIgnoresUsageMask(img, usage_mask, bit) == bit \in img.usage

MutSlotIgnoresImageUsage(img, usage_mask, bit) == bit \in usage_mask

\* lines 581, 598, 615: whether the slot of the usage bit is built
slot_wanted(img, usage_mask, bit) == bit \in (img.usage \cap usage_mask)

\* the state is flushed as soon as it is allocated, before it is filled
MutSlotFlushBeforeFill(ctx, class, wanted, cmd_buffer, data, events) ==
  IF ~wanted THEN ctx @@ [state |-> UnbuiltState]
  ELSE LET st == alloc_surface_state(ctx, cmd_buffer)
       IN  [pool |-> IF cmd_buffer THEN ctx.pool ELSE ctx.pool \cup {st.offset},
            n |-> IF cmd_buffer THEN ctx.n + 1 ELSE ctx.n,
            log |-> ctx.log \o <<<<"alloc", class>>>>
                    \o (IF ~device.info.has_llc THEN <<<<"clflush", class>>>>
                        ELSE <<>>)
                    \o events,
            state |-> [st EXCEPT !.data = data]]

\* One of the three blocks of lines 581-641.  ctx: [pool, n, log]; the
\* result adds state, the slot's struct anv_state.
view_slot(ctx, class, wanted, cmd_buffer, data, events) ==
  IF ~wanted THEN ctx @@ [state |-> UnbuiltState]
  ELSE LET st == alloc_surface_state(ctx, cmd_buffer)
       IN  [pool |-> IF cmd_buffer THEN ctx.pool ELSE ctx.pool \cup {st.offset},
            n |-> IF cmd_buffer THEN ctx.n + 1 ELSE ctx.n,
            log |-> ctx.log \o <<<<"alloc", class>>>> \o events
                    \o (IF ~device.info.has_llc THEN <<<<"clflush", class>>>>
                        ELSE <<>>),
            state |-> [st EXCEPT !.data = data]]

\* The view the call builds on the surface it has resolved, the pool and the
\* events; result is "built", or "crash" when the raw storage path reads the
\* size of a buffer object that is NULL.
view_build(img, i, surface_field, info, cmd_buffer, offset, usage_mask, pool) ==
  LET range == info.subresourceRange
      surface == img[surface_field]
      format == anv_get_isl_format(info.format)
      swizzle == info.format.swizzle
      reinterpret == ~isl_format_is_compressed(format)
                     /\ isl_format_is_compressed(img.format.isl_format)
      isl_view == view_isl_view(info, format, swizzle, reinterpret)
      l0 == view_level0_extent_px(img, surface, range, reinterpret)
      cube == IF info.viewType \in {"CUBE", "CUBE_ARRAY"} THEN {"CUBE"} ELSE {}
      view_offset == img.offset + surface.offset + offset
      c0 == [pool |-> pool, n |-> 0, log |-> <<>>]
      c1 == view_slot(c0, "sampler", slot_wanted(img, usage_mask, "SAMPLED"),
                      cmd_buffer,
                      isl_surf_fill_state(surface_field, isl_view,
                                          cube \cup {"TEXTURE"}, l0),
                      <<<<"fill", "sampler">>>>)
      c2 == view_slot([pool |-> c1.pool, n |-> c1.n, log |-> c1.log],
                      "color_rt",
                      slot_wanted(img, usage_mask, "COLOR_ATTACHMENT"),
                      cmd_buffer,
                      isl_surf_fill_state(surface_field, isl_view,
                                          cube \cup {"RENDER_TARGET"}, l0),
                      <<<<"fill", "color_rt">>>>)
      storage == slot_wanted(img, usage_mask, "STORAGE")
      typed == has_matching_storage_typed_format(device, format)
      null_bo == storage /\ ~typed /\ img.bo = NoBo
      c3 == view_slot([pool |-> c2.pool, n |-> c2.n, log |-> c2.log],
                      "storage", storage, cmd_buffer,
                      IF typed
                      THEN isl_surf_fill_state(surface_field, isl_view,
                                               cube \cup {"STORAGE"}, l0)
                      ELSE anv_fill_buffer_surface_state(
                             "RAW", view_offset, img.bo.size - view_offset, 1),
                      <<<<"fill", "storage">>, <<"image_param", "storage">>>>)
      iview == [live |-> TRUE, image |-> i, bo |-> img.bo,
                offset |-> view_offset,
                aspect_mask |-> range.aspectMask,
                vk_format |-> info.format.name,
                base_layer |-> range.baseArrayLayer,
                base_mip |-> range.baseMipLevel,
                extent |->
                  [width |-> anv_minify(img.extent.width, range.baseMipLevel),
                   height |-> anv_minify(img.extent.height, range.baseMipLevel),
                   depth |-> anv_minify(img.extent.depth, range.baseMipLevel)],
                sampler_surface_state |-> c1.state,
                color_rt_surface_state |-> c2.state,
                storage_surface_state |-> c3.state,
                storage_image_param |->
                  IF storage THEN [surf |-> surface_field, view |-> isl_view]
                  ELSE [surf |-> "", view |-> NoData]]
      \* the call does not look at what alloc_surface_state returns: filling
      \* a state the pool could not allocate writes through an invalid map
      lost(ctx, class) ==
        [result |-> "crash", at |-> "anv_state_pool_alloc", iview |-> NoView,
         pool |-> ctx.pool, log |-> ctx.log \o <<<<"alloc_failed", class>>>>]
      exhausted(ctx, wanted) ==
        wanted /\ ~cmd_buffer /\ anv_state_pool_exhausted(ctx.pool)
  IN  IF exhausted(c0, slot_wanted(img, usage_mask, "SAMPLED"))
      THEN lost(c0, "sampler")
      ELSE IF exhausted(c1, slot_wanted(img, usage_mask, "COLOR_ATTACHMENT"))
      THEN lost(c1, "color_rt")
      ELSE IF exhausted(c2, storage) THEN lost(c2, "storage")
      ELSE IF null_bo
      THEN [result |-> "crash", at |-> "iview->bo->size",
            iview |-> [iview EXCEPT !.storage_surface_state.data = NoData],
            pool |-> c3.pool,
            log |-> c2.log \o <<<<"alloc", "storage">>>>]
      ELSE [result |-> "built", at |-> "", iview |-> iview, pool |-> c3.pool,
            log |-> c3.log]

\* The outcomes of anv_image_view_init on the image: [result, at, iview,
\* pool, log].  A failed assert() aborts a debug build before anything is
\* written.
anv_image_view_init(i, info, cmd_buffer, offset, usage_mask, pool) ==
  LET img == image[i]
      failed == anv_image_view_init_asserts(img, info.subresourceRange)
      stop(result, at) == [result |-> result, at |-> at, iview |-> NoView,
                           pool |-> pool, log |-> <<>>]
  IN  IF build = "debug" /\ failed # "" THEN {stop("abort", failed)}
      ELSE {IF s \in {"abort", "crash"}
            THEN stop(s, "anv_image_get_surface_for_aspect_mask")
            ELSE view_build(img, i, s, info, cmd_buffer, offset, usage_mask, pool) :
              s \in anv_image_get_surface_for_aspect_mask(
                      img, info.subresourceRange.aspectMask)}

----------------------------------------------------------------------------
(* The entry points that build and destroy a view *)

\* what the call of an entry point leaves in last
ViewCall(op, v, info, cmd_buffer, offset, usage_mask, result, at, log) ==
  [op |-> op, view |-> v, info |-> info, cmd_buffer |-> cmd_buffer,
   offset |-> offset, usage_mask |-> usage_mask, result |-> result,
   at |-> at, log |-> log]

\* the call stores the extent of the view's base level in the image instead
\* of the view
MutCreateImageViewMinifiesImage(op, v, info, alloc_ok) ==
  /\ proc = "running"
  /\ image[info.image].pc = "done"
  /\ view[v] = NoView
  /\ alloc_ok
  /\ \E out \in anv_image_view_init(info.image, info, FALSE, 0, AllUsage,
                                    surface_state_pool) :
       /\ proc' = IF out.result = "built" THEN proc ELSE "aborted"
       /\ view' = [view EXCEPT ![v] =
            IF out.iview = NoView THEN [live |-> TRUE, heap |-> TRUE]
            ELSE out.iview @@ [heap |-> TRUE]]
       /\ image' = IF out.iview = NoView THEN image
                   ELSE [image EXCEPT ![info.image].extent = out.iview.extent]
       /\ surface_state_pool' = out.pool
       /\ last' = ViewCall(op, v, info, FALSE, 0, AllUsage,
                    IF out.result = "built" THEN "VK_SUCCESS" ELSE out.result,
                    out.at, <<<<"alloc", "view">>>> \o out.log)
  /\ UNCHANGED <<build, stderr, device>>

\* anv_CreateImageView, under the name op of the entry point called.
\* alloc_ok: whether anv_alloc2 returns memory.
CreateImageView(op, v, info, alloc_ok) ==
  /\ proc = "running"
  /\ image[info.image].pc = "done"
  /\ view[v] = NoView
  /\ IF ~alloc_ok
     THEN /\ last' = ViewCall(op, v, info, FALSE, 0, AllUsage,
                              "VK_ERROR_OUT_OF_HOST_MEMORY", "", <<>>)
          /\ UNCHANGED <<proc, view, surface_state_pool>>
     ELSE \E out \in anv_image_view_init(info.image, info, FALSE, 0, AllUsage,
                                         surface_state_pool) :
            /\ proc' = IF out.result = "built" THEN proc ELSE "aborted"
            /\ view' = [view EXCEPT ![v] =
                 IF out.iview = NoView THEN [live |-> TRUE, heap |-> TRUE]
                 ELSE out.iview @@ [heap |-> TRUE]]
            /\ surface_state_pool' = out.pool
            /\ last' = ViewCall(op, v, info, FALSE, 0, AllUsage,
                         IF out.result = "built" THEN "VK_SUCCESS" ELSE out.result,
                         out.at, <<<<"alloc", "view">>>> \o out.log)
  /\ UNCHANGED <<build, stderr, image, device>>

anv_CreateImageView(v, info, alloc_ok) ==
  CreateImageView("anv_CreateImageView", v, info, alloc_ok)

\* lines 386-425: the assert() that fails first, or "" when all hold
anv_validate_CreateImageView_asserts(img, info) ==
  LET subresource == info.subresourceRange
      mask == subresource.aspectMask
      vf == info.format
      ds_flags == {"DEPTH", "STENCIL"}
  IN  IF mask = {} THEN "subresource->aspectMask != 0"
      ELSE IF ~(subresource.levelCount > 0) THEN "subresource->levelCount > 0"
      ELSE IF ~(subresource.layerCount > 0) THEN "subresource->layerCount > 0"
      ELSE IF ~(subresource.baseMipLevel < img.levels)
      THEN "subresource->baseMipLevel < image->levels"
      ELSE IF ~(subresource.baseMipLevel + subresource.levelCount <= img.levels)
      THEN "subresource->baseMipLevel + subresource->levelCount <= image->levels"
      ELSE IF ~(subresource.baseArrayLayer < img.array_size)
      THEN "subresource->baseArrayLayer < image->array_size"
      ELSE IF ~(subresource.baseArrayLayer + subresource.layerCount
                  <= img.array_size)
      THEN "subresource->baseArrayLayer + subresource->layerCount <= image->array_size"
      ELSE IF "COLOR" \in mask
      THEN (IF mask # {"COLOR"}
            THEN "subresource->aspectMask == VK_IMAGE_ASPECT_COLOR_BIT"
            ELSE IF img.format.has_depth THEN "!image->format->has_depth"
            ELSE IF img.format.has_stencil THEN "!image->format->has_stencil"
            ELSE IF vf.has_depth THEN "!view_format_info->has_depth"
            ELSE IF vf.has_stencil THEN "!view_format_info->has_stencil"
            ELSE IF vf.isl_format.bs # img.format.isl_format.bs
            THEN "view_format_info->isl_layout->bs == image->format->isl_layout->bs"
            ELSE "")
      ELSE IF mask \cap ds_flags # {}
      THEN (IF mask \ ds_flags # {}
            THEN "(subresource->aspectMask & ~ds_flags) == 0"
            \* line 411 tests the stencil bit before the depth assertions
            ELSE IF "STENCIL" \in mask /\ ~img.format.has_depth
            THEN "image->format->has_depth"
            ELSE IF "STENCIL" \in mask /\ ~vf.has_depth
            THEN "view_format_info->has_depth"
            ELSE IF "STENCIL" \in mask
                    /\ vf.isl_format.bs # img.format.isl_format.bs
            THEN "view_format_info->isl_layout->bs == image->format->isl_layout->bs"
            ELSE IF "STENCIL" \in mask /\ ~img.format.has_stencil
            THEN "image->format->has_stencil"
            ELSE IF "STENCIL" \in mask /\ ~vf.has_stencil
            THEN "view_format_info->has_stencil"
            ELSE "")
      ELSE "bad VkImageSubresourceRange::aspectFlags"

\* anv_validate_CreateImageView: its assert()s abort a debug build before
\* anything is allocated; then anv_CreateImageView
anv_validate_CreateImageView(v, info, alloc_ok) ==
  LET failed == IF image[info.image].pc = "done"
                THEN anv_validate_CreateImageView_asserts(image[info.image], info)
                ELSE ""
  IN  IF build = "debug" /\ failed # ""
      THEN /\ proc = "running"
           /\ image[info.image].pc = "done"
           /\ view[v] = NoView
           /\ proc' = "aborted"
           /\ last' = ViewCall("anv_validate_CreateImageView", v, info, FALSE, 0,
                               AllUsage, "abort", failed, <<>>)
           /\ UNCHANGED <<build, stderr, image, device, view, surface_state_pool>>
      ELSE CreateImageView("anv_validate_CreateImageView", v, info, alloc_ok)

\* anv_image_view_init called by the driver itself on a view of its own
\* (a local variable of the caller)
anv_image_view_init_call(v, info, cmd_buffer, offset, usage_mask) ==
  /\ proc = "running"
  /\ image[info.image].pc = "done"
  /\ view[v] = NoView
  /\ \E out \in anv_image_view_init(info.image, info, cmd_buffer, offset,
                                    usage_mask, surface_state_pool) :
       /\ proc' = IF out.result = "built" THEN proc ELSE "aborted"
       /\ view' = [view EXCEPT ![v] =
            IF out.iview = NoView THEN [live |-> TRUE, heap |-> FALSE]
            ELSE out.iview @@ [heap |-> FALSE]]
       /\ surface_state_pool' = out.pool
       /\ last' = ViewCall("anv_image_view_init", v, info, cmd_buffer, offset,
                           usage_mask,
                           IF out.result = "built" THEN "returned" ELSE out.result,
                           out.at, out.log)
  /\ UNCHANGED <<build, stderr, image, device>>

\* the caller of anv_image_view_init returns: its view is gone, the states
\* it took stay with their allocators
anv_image_view_leave(v) ==
  /\ proc = "running"
  /\ view[v] # NoView
  /\ ~view[v].heap
  /\ view' = [view EXCEPT ![v] = NoView]
  /\ last' = [op |-> "return", view |-> v]
  /\ UNCHANGED <<build, proc, stderr, image, device, surface_state_pool>>

MutFreesSkipStorage(iview) ==
  (IF iview.color_rt_surface_state.alloc_size > 0
   THEN <<iview.color_rt_surface_state.offset>> ELSE <<>>)
  \o (IF iview.sampler_surface_state.alloc_size > 0
      THEN <<iview.sampler_surface_state.offset>> ELSE <<>>)

\* lines 672-685: the calls of anv_state_pool_free, in order
view_frees(iview) ==
  (IF iview.color_rt_surface_state.alloc_size > 0
   THEN <<iview.color_rt_surface_state.offset>> ELSE <<>>)
  \o (IF iview.sampler_surface_state.alloc_size > 0
      THEN <<iview.sampler_surface_state.offset>> ELSE <<>>)
  \o (IF iview.storage_surface_state.alloc_size > 0
      THEN <<iview.storage_surface_state.offset>> ELSE <<>>)

\* the states anv_DestroyImageView gives back to the pool
destroyed_states(iview) ==
  {view_frees(iview)[k] : k \in 1..Len(view_frees(iview))}

anv_DestroyImageView(v) ==
  /\ proc = "running"
  /\ view[v] # NoView
  /\ view[v].heap
  /\ surface_state_pool' = surface_state_pool \ destroyed_states(view[v])
  /\ view' = [view EXCEPT ![v] = NoView]
  /\ last' = [op |-> "anv_DestroyImageView", view |-> v,
              freed |-> destroyed_states(view[v]),
              frees |-> view_frees(view[v])]
  /\ UNCHANGED <<build, proc, stderr, image, device>>

\* anv_image_get_surface_for_aspect_mask called on a created image
anv_image_get_surface_for_aspect_mask_call(i, aspect_mask) ==
  /\ proc = "running"
  /\ image[i].pc = "done"
  /\ \E s \in anv_image_get_surface_for_aspect_mask(image[i], aspect_mask) :
       /\ proc' = IF s \in {"abort", "crash"} THEN "aborted" ELSE proc
       /\ last' = [op |-> "anv_image_get_surface_for_aspect_mask", image |-> i,
                   aspect_mask |-> aspect_mask, result |-> s]
  /\ UNCHANGED <<build, stderr, image, device, view, surface_state_pool>>

----------------------------------------------------------------------------
(* anv_CreateBufferView, anv_DestroyBufferView *)

\* VkDeviceSize arithmetic is unsigned and wraps; the model keeps 30 of its
\* bits, far above every size it uses
VkDeviceSize(n) == n % Pow2(30)

\* ~0ULL
VK_WHOLE_SIZE == Pow2(30) - 1

\* (struct anv_state){ 0 }
ZeroState == [alloc_size |-> 0, offset |-> 0, from |-> "", data |-> NoData]

\* The outcome of the call on the buffer: [result, view, pool].
\* alloc_ok: whether anv_alloc2 returns memory
anv_CreateBufferView(buffer, info, alloc_ok, pool) ==
  IF ~alloc_ok
  THEN [result |-> "VK_ERROR_OUT_OF_HOST_MEMORY", view |-> NoView, pool |-> pool]
  ELSE
  LET format == info.format
      offset == VkDeviceSize(buffer.offset + info.offset)
      range == IF info.range = VK_WHOLE_SIZE
               THEN VkDeviceSize(buffer.size - offset)
               ELSE info.range
      uniform == "UNIFORM_TEXEL_BUFFER" \in buffer.usage
      storage == "STORAGE_TEXEL_BUFFER" \in buffer.usage
      s1 == anv_state_pool_alloc(pool)
      pool1 == IF uniform THEN pool \cup {s1} ELSE pool
      s2 == anv_state_pool_alloc(pool1)
      pool2 == IF storage THEN pool1 \cup {s2} ELSE pool1
      storage_format ==
        IF has_matching_storage_typed_format(device, format.isl_format)
        THEN format.isl_format.name ELSE "RAW"
  IN  [result |-> "VK_SUCCESS",
       view |->
         [live |-> TRUE, format |-> format.isl_format, bo |-> buffer.bo,
          offset |-> offset, range |-> range,
          surface_state |->
            IF uniform
            THEN [alloc_size |-> 64, offset |-> s1,
                  from |-> "surface_state_pool",
                  data |-> anv_fill_buffer_surface_state(
                             format.isl_format.name, offset, range,
                             format.isl_format.bs)]
            ELSE ZeroState,
          storage_surface_state |->
            IF storage
            THEN [alloc_size |-> 64, offset |-> s2,
                  from |-> "surface_state_pool",
                  data |-> anv_fill_buffer_surface_state(
                             storage_format, offset, range,
                             IF storage_format = "RAW" THEN 1
                             ELSE format.isl_format.bs)]
            ELSE ZeroState],
       pool |-> pool2]

\* the arguments of the call are in last, with op "input"
anv_CreateBufferView_call ==
  /\ proc = "running"
  /\ last.op = "input"
  /\ last.fn = "anv_CreateBufferView"
  /\ LET out == anv_CreateBufferView(last.buffer, last.info, last.alloc_ok,
                                     surface_state_pool)
     IN  /\ last' = [op |-> "anv_CreateBufferView", buffer |-> last.buffer,
                     info |-> last.info, result |-> out.result,
                     view |-> out.view]
         /\ surface_state_pool' = out.pool
  /\ UNCHANGED <<build, proc, stderr, image, device, view>>

\* lines 753-768: the two states go back to the pool when they were allocated
anv_DestroyBufferView_call ==
  /\ proc = "running"
  /\ last.op = "anv_CreateBufferView"
  /\ last.result = "VK_SUCCESS"
  /\ LET freed == (IF last.view.surface_state.alloc_size > 0
                   THEN {last.view.surface_state.offset} ELSE {})
                  \cup (IF last.view.storage_surface_state.alloc_size > 0
                        THEN {last.view.storage_surface_state.offset} ELSE {})
     IN  /\ surface_state_pool' = surface_state_pool \ freed
         /\ last' = [op |-> "anv_DestroyBufferView", freed |-> freed]
  /\ UNCHANGED <<build, proc, stderr, image, device, view>>

----------------------------------------------------------------------------
(* The static functions called on their own.  The arguments of the call are
   in last, with op "input"; the call replaces them by the arguments and
   what it returned. *)

choose_isl_surf_usage_call ==
  /\ proc = "running"
  /\ last.op = "input"
  /\ last.fn = "choose_isl_surf_usage"
  /\ \E out \in choose_isl_surf_usage(last.vk_usage, last.aspect) :
       /\ proc' = IF out.crash THEN "aborted" ELSE proc
       /\ last' = [op |-> "choose_isl_surf_usage", vk_usage |-> last.vk_usage,
                   aspect |-> last.aspect, crash |-> out.crash,
                   bits |-> out.bits]
  /\ UNCHANGED <<build, stderr, image, device, view, surface_state_pool>>

remap_swizzle_call ==
  /\ proc = "running"
  /\ last.op = "input"
  /\ last.fn = "remap_swizzle"
  /\ last' = [op |-> "remap_swizzle", swizzle |-> last.swizzle,
              component |-> last.component,
              format_swizzle |-> last.format_swizzle,
              result |-> remap_swizzle(last.swizzle, last.component,
                                       last.format_swizzle)]
  /\ UNCHANGED <<build, proc, stderr, image, device, view, surface_state_pool>>

\* lines 525-541 of anv_image_view_init: the isl_view of a view of a format
\* with the swizzle anv_get_isl_format has answered
isl_view_call ==
  /\ proc = "running"
  /\ last.op = "input"
  /\ last.fn = "isl_view"
  /\ last' = [op |-> "isl_view", info |-> last.info,
              format_swizzle |-> last.format_swizzle,
              isl_view |-> view_isl_view(last.info, anv_get_isl_format(last.info.format),
                                         last.format_swizzle, FALSE)]
  /\ UNCHANGED <<build, proc, stderr, image, device, view, surface_state_pool>>

----------------------------------------------------------------------------
(* Inputs *)

Builds == {"debug", "release"}

Extent2D == [width |-> 4, height |-> 4, depth |-> 1]

\* the answers of a successful isl_surf_init
LayoutIsls ==
  {[size |-> s, alignment |-> Pow2(k), row_pitch |-> s + 1,
    array_pitch_el_rows |-> 2, usage |-> {},
    format |-> NoFormat.isl_format] :
     s \in 1..MaxSize, k \in 0..MaxAlignLog}

LayoutOracle == {[ok |-> TRUE, isl |-> g] : g \in LayoutIsls}

\* the usages of the images laid out: two for a color format, two for a
\* depth/stencil format
LayoutUsages(f) ==
  IF anv_format_is_color(f)
  THEN {{"SAMPLED"}, {"COLOR_ATTACHMENT", "TRANSFER_SRC"}}
  ELSE {{"DEPTH_STENCIL_ATTACHMENT"}, {"SAMPLED", "TRANSFER_DST"}}

\* <<samples, mipLevels, arrayLayers>> of the images laid out
LayoutCounts == {<<1, 1, 1>>, <<4, 1, 1>>, <<1, 2, 2>>}

LayoutInfos ==
  UNION {{[imageType |-> "2D", format |-> f, extent |-> Extent2D,
           mipLevels |-> n[2], arrayLayers |-> n[3], samples |-> n[1],
           tiling |-> "OPTIMAL", usage |-> u] :
            n \in LayoutCounts, u \in LayoutUsages(f)} : f \in ImageFormats}

\* the subresources queried
QueryAspects == {{"COLOR"}, {"DEPTH"}, {"STENCIL"}, {"DEPTH", "STENCIL"},
                 {"METADATA"}}

Subresources == [aspectMask : QueryAspects, mipLevel : {0, 1}, arrayLayer : {0, 1}]

LayoutIds == {1}

\* the fields of device->info this file reads
Device(has_llc, gen, is_haswell) ==
  [info |-> [has_llc |-> has_llc, gen |-> gen, is_haswell |-> is_haswell]]

LayoutDevices == {Device(TRUE, 8, FALSE)}

ViewDevices == {Device(TRUE, 8, FALSE), Device(FALSE, 7, FALSE)}

\* the images views are built on
ViewImage(type, format, depth, levels, layers, usage) ==
  [imageType |-> type, format |-> format,
   extent |-> [width |-> 4, height |-> 4, depth |-> depth],
   mipLevels |-> levels, arrayLayers |-> layers, samples |-> 1,
   tiling |-> "OPTIMAL", usage |-> usage]

ViewImageInfos ==
  {ViewImage("2D", R8G8B8A8_UNORM, 1, 2, 2, {"SAMPLED", "COLOR_ATTACHMENT", "STORAGE"}),
   ViewImage("2D", R8G8B8A8_UNORM, 1, 2, 2, {"SAMPLED"}),
   ViewImage("2D", R8G8B8A8_UNORM, 1, 2, 2, {"TRANSIENT_ATTACHMENT"}),
   ViewImage("3D", R8G8B8A8_UNORM, 4, 2, 1, {"SAMPLED", "STORAGE"}),
   ViewImage("2D", R32G32B32A32_SFLOAT, 1, 1, 1, {"STORAGE"}),
   ViewImage("2D", D24_UNORM_S8_UINT, 1, 1, 1, {"DEPTH_STENCIL_ATTACHMENT"}),
   ViewImage("2D", D24_UNORM_S8_UINT, 1, 1, 1, {"SAMPLED", "TRANSFER_DST"}),
   ViewImage("2D", D24_UNORM_S8_UINT, 1, 1, 1,
             {"DEPTH_STENCIL_ATTACHMENT", "SAMPLED"}),
   ViewImage("2D", S8_UINT, 1, 1, 1, {"DEPTH_STENCIL_ATTACHMENT", "SAMPLED"})}

ViewOracle ==
  {[ok |-> TRUE,
    isl |-> [size |-> 96, alignment |-> 64, row_pitch |-> 16,
             array_pitch_el_rows |-> 4, usage |-> {},
             format |-> NoFormat.isl_format]]}

\* the memory bound to an image: <<buffer object, offset>>
ViewBinds == {<<[size |-> 512], 64>>}

Identity == [r |-> "IDENTITY", g |-> "IDENTITY", b |-> "IDENTITY", a |-> "IDENTITY"]

ViewInfo(i, format, aspectMask, baseMipLevel, levelCount, baseArrayLayer, layerCount) ==
  [image |-> i, viewType |-> "2D", format |-> format, components |-> Identity,
   subresourceRange |->
     [aspectMask |-> aspectMask, baseMipLevel |-> baseMipLevel,
      levelCount |-> levelCount, baseArrayLayer |-> baseArrayLayer,
      layerCount |-> layerCount]]

\* every range of a color view, with bases 0..MaxBase and counts 0..MaxCount
RangeInfos(i) ==
  {ViewInfo(i, R8G8B8A8_UNORM, {"COLOR"}, bl, lc, ba, ac) :
     bl \in 0..MaxBase, lc \in 0..MaxCount, ba \in 0..MaxBase, ac \in 0..MaxCount}

\* every aspect mask, on the first level and layer
AspectInfos(i) ==
  {ViewInfo(i, f, m, 0, 1, 0, 1) :
     f \in {R8G8B8A8_UNORM, R32G32B32A32_SFLOAT, D24_UNORM_S8_UINT, S8_UINT},
     m \in {{"COLOR"}, {"DEPTH"}, {"STENCIL"}, {"DEPTH", "STENCIL"}, {},
            {"COLOR", "DEPTH"}}}

ViewInfos(i) == RangeInfos(i) \cup AspectInfos(i)

\* the calls the driver makes of anv_image_view_init, each with its command
\* buffer: <<info, cmd_buffer, offset, usage_mask>>
InitCalls(i) ==
  ({ViewInfo(i, f, {"COLOR"}, 0, c[1], c[2], c[3]) :
      f \in {R8G8B8A8_UNORM, R32G32B32A32_SFLOAT},
      c \in {<<1, 0, 1>>, <<3, 0, 1>>, <<1, 2, 1>>}}
   \cup {ViewInfo(i, D24_UNORM_S8_UINT, {"DEPTH"}, 0, 1, 0, 1)})
  \X {TRUE} \X {0, 32}
  \X ((SUBSET {"SAMPLED", "COLOR_ATTACHMENT", "STORAGE"}) \cup {AllUsage})

\* the calls of the two entry points: <<info, alloc_ok>>; the host
\* allocation fails in one of them
CreateCallsOf(ids) ==
  UNION {(ViewInfos(i) \X {TRUE})
         \cup {<<ViewInfo(i, R8G8B8A8_UNORM, {"COLOR"}, 0, 1, 0, 1), FALSE>>} :
           i \in ids}

InitCallsOf(ids) == UNION {InitCalls(i) : i \in ids}

SpecViewImages == {1}

SpecViewViews == {1}

\* the calls made in SpecView and SpecFrame, each set built once
SpecViewCreateCalls == CreateCallsOf(SpecViewImages)

SpecViewInitCalls == InitCallsOf(SpecViewImages)

----------------------------------------------------------------------------
(* The layout of a created image *)

Aspects == {"COLOR", "DEPTH", "STENCIL"}

\* make_surface has laid out the aspect's surface of the image
Placed(img, a) == \E k \in 1..Len(img.placed) : img.placed[k] = a

LaidOut(img) == {a \in Aspects : Placed(img, a)}

SurfEnd(surf) == surf.offset + surf.isl.size

SizeIfLaidOut(img, a) == IF Placed(img, a) THEN get_surface(img, a).isl.size ELSE 0

\* C1: in every image anv_image_create has returned, the byte ranges
\* [offset, offset + size) of the laid-out surfaces are pairwise disjoint,
\* every laid-out surface's offset is a multiple of its own alignment, and the
\* image's size is at least the sum of the sizes of its laid-out surfaces.
C1_SurfacesDisjointAligned ==
  \A i \in ImageIds : image[i].pc = "done" =>
    LET img == image[i]
    IN  /\ \A a \in LaidOut(img) :
             get_surface(img, a).offset % get_surface(img, a).isl.alignment = 0
        /\ \A a, b \in LaidOut(img) :
             a # b => \/ SurfEnd(get_surface(img, a)) <= get_surface(img, b).offset
                      \/ SurfEnd(get_surface(img, b)) <= get_surface(img, a).offset
        /\ img.size >= SizeIfLaidOut(img, "COLOR") + SizeIfLaidOut(img, "DEPTH")
                        + SizeIfLaidOut(img, "STENCIL")

\* a depth+stencil image whose stencil surface had to be moved up to its
\* alignment, leaving a gap behind the depth surface
C1_Witness ==
  \E i \in ImageIds :
    /\ image[i].pc = "done"
    /\ LaidOut(image[i]) = {"DEPTH", "STENCIL"}
    /\ image[i].stencil_surface.offset > SurfEnd(image[i].depth_surface)
    /\ image[i].size > image[i].depth_surface.isl.size
                        + image[i].stencil_surface.isl.size

\* C2: surfaces are placed in the order color, depth, stencil; the first one
\* placed is at offset 0, every later one at the end of the one placed before
\* it rounded up to its own alignment, and the image's size is the end of the
\* last one placed.
C2_PlacedInOrder ==
  \A i \in ImageIds : image[i].pc \in {"depth", "stencil", "ret", "done"} =>
    LET img == image[i]
        n == Len(img.placed)
        surf(k) == get_surface(img, img.placed[k])
    IN  /\ img.placed \in {<<>>, <<"COLOR">>, <<"DEPTH">>, <<"STENCIL">>,
                            <<"DEPTH", "STENCIL">>}
        /\ n > 0 => surf(1).offset = 0
        /\ \A k \in 2..n :
             surf(k).offset = align_u32(SurfEnd(surf(k - 1)), surf(k).isl.alignment)
        /\ n > 0 => img.size = SurfEnd(surf(n))
        /\ n = 1 => img.size = surf(1).isl.size
        /\ img.pc \in {"ret", "done"} => n > 0

\* a depth+stencil image whose depth alignment is larger than its stencil
\* alignment, with the stencil surface behind the depth surface
C2_Witness ==
  \E i \in ImageIds :
    /\ image[i].pc = "done"
    /\ image[i].placed = <<"DEPTH", "STENCIL">>
    /\ image[i].depth_surface.isl.alignment > image[i].stencil_surface.isl.alignment
    /\ image[i].stencil_surface.offset = 1
    /\ image[i].depth_surface.offset = 0

MaxAlignment(img) ==
  LET al(a) == IF Placed(img, a) THEN get_surface(img, a).isl.alignment ELSE 0
  IN  MAX(al("COLOR"), MAX(al("DEPTH"), al("STENCIL")))

\* C3: the image's alignment is the largest alignment among the surfaces laid
\* out for it, after the call and after each make_surface, and no step of the
\* call lowers it.
C3_AlignmentIsMax ==
  /\ [](\A i \in ImageIds :
          image[i].pc # "free" => image[i].alignment = MaxAlignment(image[i]))
  /\ [][\A i \in ImageIds :
          image[i].pc \in {"usage", "color", "depth", "stencil", "ret"}
            => image'[i].alignment >= image[i].alignment]_vars

\* a depth+stencil image whose alignment is that of its depth surface, the
\* stencil surface, laid out last, having a smaller one
C3_Witness ==
  \E i \in ImageIds :
    /\ image[i].pc = "done"
    /\ image[i].placed = <<"DEPTH", "STENCIL">>
    /\ image[i].alignment = image[i].depth_surface.isl.alignment
    /\ image[i].alignment > image[i].stencil_surface.isl.alignment

\* C4: the format alone decides which surfaces a created image has: the color
\* surface for a color format, else the depth surface iff the format has
\* depth and the stencil surface iff it has stencil; a surface not laid out is
\* all zero, one laid out has the size the geometry calculator answered.
C4_SurfacesFollowFormat ==
  \A i \in ImageIds : image[i].pc = "done" =>
    LET img == image[i]
        f == img.info.format
        has(a) == get_surface(img, a) # ZeroSurface
    IN  /\ has("COLOR") <=> (~f.has_depth /\ ~f.has_stencil)
        /\ has("DEPTH") <=> f.has_depth
        /\ has("STENCIL") <=> f.has_stencil
        /\ has("COLOR") => ~has("DEPTH") /\ ~has("STENCIL")
        /\ \A a \in Aspects : has(a) <=> Placed(img, a)
        /\ \A a \in Aspects :
             ~has(a) => get_surface(img, a).offset = 0
                        /\ get_surface(img, a).isl.size = 0

\* a stencil-only image: the stencil surface laid out, the other two zero
C4_Witness ==
  \E i \in ImageIds :
    /\ image[i].pc = "done"
    /\ image[i].info.format = S8_UINT
    /\ image[i].stencil_surface.isl.size > 0
    /\ image[i].depth_surface = ZeroSurface
    /\ image[i].color_surface = ZeroSurface

----------------------------------------------------------------------------
(* The subresource query *)

QueryReturned ==
  last.op = "anv_GetImageSubresourceLayout" /\ last.result = "returned"

\* C5: a query of a non-zero mip level or array layer fails with
\* UnsupportedSubresource and writes no layout.
C5_NonZeroSubresourceFails ==
  (/\ last.op = "anv_GetImageSubresourceLayout"
   /\ (last.subresource.mipLevel # 0 \/ last.subresource.arrayLayer # 0))
  => /\ last.result = "UnsupportedSubresource"
     /\ last.layout = NoLayout

\* the query of level 1 of the depth surface of a two-level image has
\* returned, with the layout of level 0 written
C5_Witness ==
  /\ QueryReturned
  /\ last.subresource = [aspectMask |-> {"DEPTH"}, mipLevel |-> 1, arrayLayer |-> 0]
  /\ image[last.image].levels = 2
  /\ last.layout.offset = image[last.image].depth_surface.offset
  /\ last.layout.size = image[last.image].depth_surface.isl.size
  /\ last.layout.size > 0

\* C6: a query with exactly one of the color, depth and stencil bits, level 0
\* and layer 0 returns, and the layout it writes is that of the matching
\* surface of the image: its offset, its row pitch, its array pitch (as array
\* and as depth pitch) and its size.
C6_QueryReturnsSurfaceLayout ==
  (/\ last.op = "anv_GetImageSubresourceLayout"
   /\ last.subresource.aspectMask \in {{"COLOR"}, {"DEPTH"}, {"STENCIL"}}
   /\ last.subresource.mipLevel = 0
   /\ last.subresource.arrayLayer = 0)
  => LET img == image[last.image]
         surf == CASE last.subresource.aspectMask = {"COLOR"} -> img.color_surface
                   [] last.subresource.aspectMask = {"DEPTH"} -> img.depth_surface
                   [] last.subresource.aspectMask = {"STENCIL"} -> img.stencil_surface
     IN  /\ last.result = "returned"
         /\ last.layout.offset = surf.offset
         /\ last.layout.rowPitch = surf.isl.row_pitch
         /\ last.layout.arrayPitch = surf.isl.array_pitch_el_rows * surf.isl.row_pitch
         /\ last.layout.depthPitch = last.layout.arrayPitch
         /\ last.layout.size = surf.isl.size

\* the stencil surface of a depth+stencil image queried at level 0, layer 0:
\* it lies behind the depth surface and differs from it in size
C6_Witness ==
  /\ QueryReturned
  /\ last.subresource = [aspectMask |-> {"STENCIL"}, mipLevel |-> 0, arrayLayer |-> 0]
  /\ image[last.image].placed = <<"DEPTH", "STENCIL">>
  /\ last.layout.offset > 0
  /\ last.layout.size # image[last.image].depth_surface.isl.size
  /\ last.layout.rowPitch # last.layout.arrayPitch

----------------------------------------------------------------------------
(* The sub-range of a view *)

CreateOps == {"anv_CreateImageView", "anv_validate_CreateImageView"}

ViewOps == CreateOps \cup {"anv_image_view_init"}

\* the last call was one that builds a view and the host allocation of the
\* view object, if it made one, succeeded
ViewCalled == last.op \in ViewOps /\ last.result # "VK_ERROR_OUT_OF_HOST_MEMORY"

\* the last call built its view and returned
ViewBuilt == last.op \in ViewOps /\ last.result \in {"VK_SUCCESS", "returned"}

LayerBound(img, range) ==
  IF img.type = "3D" THEN anv_minify(img.extent.depth, range.baseMipLevel)
  ELSE img.array_size

LayerRangeValid(img, range) ==
  /\ range.layerCount > 0
  /\ range.baseArrayLayer + range.layerCount <= LayerBound(img, range)

LevelRangeValid(img, range) ==
  /\ range.levelCount > 0
  /\ range.baseMipLevel + range.levelCount <= img.levels

\* the assertions on the layers and on the levels of a range
LayerAsserts ==
  {"range->layerCount > 0",
   "range->baseArrayLayer + range->layerCount - 1 <= image->array_size",
   "range->baseArrayLayer + range->layerCount - 1 <= anv_minify(...)",
   "subresource->layerCount > 0",
   "subresource->baseArrayLayer < image->array_size",
   "subresource->baseArrayLayer + subresource->layerCount <= image->array_size"}

LevelAsserts ==
  {"range->baseMipLevel < image->levels",
   "subresource->levelCount > 0",
   "subresource->baseMipLevel < image->levels",
   "subresource->baseMipLevel + subresource->levelCount <= image->levels"}

\* C7: a call that builds a view rejects with InvalidViewRange every range
\* with layerCount = 0 or baseArrayLayer + layerCount beyond the bound (the
\* array size of a 1D/2D image, the depth minified by the base level of a 3D
\* image), and does not reject for its layers a range within the bound.
C7_LayerRangeValidated ==
  ViewCalled =>
    LET img == image[last.info.image]
        range == last.info.subresourceRange
    IN  IF LayerRangeValid(img, range)
        THEN last.result # "InvalidViewRange" /\ last.at \notin LayerAsserts
        ELSE last.result = "InvalidViewRange"

\* a debug build: anv_CreateImageView has built a view that starts one layer
\* beyond the two layers of a 2D image
C7_Witness ==
  /\ build = "debug"
  /\ last.op = "anv_CreateImageView"
  /\ last.result = "VK_SUCCESS"
  /\ image[last.info.image].type = "2D"
  /\ image[last.info.image].array_size = 2
  /\ last.info.subresourceRange.baseArrayLayer = 2
  /\ last.info.subresourceRange.layerCount = 1
  /\ LevelRangeValid(image[last.info.image], last.info.subresourceRange)
  /\ view[last.view].base_layer = 2

\* C8: a call that builds a view, through any entry point, rejects with
\* InvalidViewRange every range with levelCount = 0 or baseMipLevel +
\* levelCount beyond the image's levels, and does not reject for its levels a
\* range within them.
C8_LevelRangeValidated ==
  ViewCalled =>
    LET img == image[last.info.image]
        range == last.info.subresourceRange
    IN  IF LevelRangeValid(img, range)
        THEN last.result # "InvalidViewRange" /\ last.at \notin LevelAsserts
        ELSE last.result = "InvalidViewRange"

\* a debug build: anv_CreateImageView has built a view of three levels on an
\* image of two
C8_Witness ==
  /\ build = "debug"
  /\ last.op = "anv_CreateImageView"
  /\ last.result = "VK_SUCCESS"
  /\ image[last.info.image].levels = 2
  /\ last.info.subresourceRange.baseMipLevel = 0
  /\ last.info.subresourceRange.levelCount = 3
  /\ LayerRangeValid(image[last.info.image], last.info.subresourceRange)
  /\ view[last.view].live

\* the aspect mask selects no surface of the image
AspectInvalid(img, mask) ==
  \/ mask \notin {{"COLOR"}, {"DEPTH"}, {"STENCIL"}, {"DEPTH", "STENCIL"}}
  \/ mask = {"DEPTH"} /\ ~img.format.has_depth
  \/ mask = {"STENCIL"} /\ ~img.format.has_stencil
  \/ mask = {"DEPTH", "STENCIL"} /\ anv_format_is_color(img.format)

ViewInputInvalid(img, info) ==
  \/ ~LayerRangeValid(img, info.subresourceRange)
  \/ ~LevelRangeValid(img, info.subresourceRange)
  \/ AspectInvalid(img, info.subresourceRange.aspectMask)

\* C9: when anv_CreateImageView is given an invalid sub-range or aspect mask,
\* the call is rejected with nothing allocated: no view object, no surface
\* state.
C9_RejectedBeforeAllocation ==
  (last.op \in CreateOps /\ ViewInputInvalid(image[last.info.image], last.info))
  => /\ last.result \in {"InvalidViewRange", "InvalidAspect"}
     /\ last.log = <<>>
     /\ view[last.view] = NoView

\* a debug build: anv_CreateImageView has stopped at the assertion on
\* layerCount = 0 with the view object allocated
C9_Witness ==
  /\ build = "debug"
  /\ last.op = "anv_CreateImageView"
  /\ last.info.subresourceRange.layerCount = 0
  /\ last.result = "abort"
  /\ last.at = "range->layerCount > 0"
  /\ last.log = <<<<"alloc", "view">>>>
  /\ view[last.view] # NoView

----------------------------------------------------------------------------
(* The surface states of a view *)

UsageClasses ==
  {[bit |-> "SAMPLED", slot |-> "sampler_surface_state", class |-> "sampler"],
   [bit |-> "COLOR_ATTACHMENT", slot |-> "color_rt_surface_state",
    class |-> "color_rt"],
   [bit |-> "STORAGE", slot |-> "storage_surface_state", class |-> "storage"]}

InLog(log, e) == \E k \in 1..Len(log) : log[k] = e

\* C10: in a view that has been built, the surface state of each usage class
\* is allocated and filled iff the class's bit is in both the image's usage
\* and the usage mask of the call, else it is the zero state; and a call that
\* does not build its view has stopped before the first class or at the raw
\* storage state the call was asked for, never at a class it was not to build.
C10_SlotsFollowUsage ==
  /\ ViewBuilt =>
       LET img == image[last.info.image]
           iview == view[last.view]
       IN  \A c \in UsageClasses :
             IF c.bit \in img.usage /\ c.bit \in last.usage_mask
             THEN /\ iview[c.slot].alloc_size > 0
                  /\ iview[c.slot].data # NoData
                  /\ InLog(last.log, <<"alloc", c.class>>)
                  /\ InLog(last.log, <<"fill", c.class>>)
             ELSE /\ iview[c.slot] = UnbuiltState
                  /\ iview[c.slot].alloc_size = 0
                  /\ ~InLog(last.log, <<"alloc", c.class>>)
  /\ (ViewCalled /\ ~ViewBuilt) =>
       \/ \A c \in UsageClasses : ~InLog(last.log, <<"alloc", c.class>>)
       \/ /\ last.at = "iview->bo->size"
          /\ "STORAGE" \in image[last.info.image].usage
          /\ "STORAGE" \in last.usage_mask

\* a view of an image usable in all three classes, built for the sampled and
\* the storage class only: the first and the third state allocated, the
\* second zero
C10_Witness ==
  /\ ViewBuilt
  /\ {"SAMPLED", "COLOR_ATTACHMENT", "STORAGE"} \subseteq image[last.info.image].usage
  /\ last.usage_mask = {"SAMPLED", "STORAGE"}
  /\ view[last.view].sampler_surface_state.alloc_size > 0
  /\ view[last.view].color_rt_surface_state.alloc_size = 0
  /\ view[last.view].storage_surface_state.alloc_size > 0

\* the last call built a view, for the sampled class only, of an image of a
\* depth+stencil format declared with the usage
DepthStencilSampledView(usage) ==
  /\ ViewBuilt
  /\ image[last.info.image].format.has_depth
  /\ image[last.info.image].format.has_stencil
  /\ image[last.info.image].info.usage = usage
  /\ last.usage_mask = {"SAMPLED"}

SlotSizes(iview) ==
  <<iview.sampler_surface_state.alloc_size,
    iview.color_rt_surface_state.alloc_size,
    iview.storage_surface_state.alloc_size>>

\* C11 as stated: a view built with usage mask {sampled} on a depth+stencil
\* image declared with usage {depth-stencil-attachment} has a sampler state
\* of size > 0 and color and storage states of size 0.
C11_DepthStencilSampledSlot ==
  DepthStencilSampledView({"DEPTH_STENCIL_ATTACHMENT"})
  => /\ view[last.view].sampler_surface_state.alloc_size > 0
     /\ view[last.view].color_rt_surface_state.alloc_size = 0
     /\ view[last.view].storage_surface_state.alloc_size = 0

\* C11 amended: on the image declared with usage {depth-stencil-attachment}
\* the view built with usage mask {sampled} has all three states of size 0;
\* the sampler state has size > 0, the other two size 0, when the declared
\* usage also has the sampled bit.
C11_DepthStencilSampledSlotAmended ==
  /\ DepthStencilSampledView({"DEPTH_STENCIL_ATTACHMENT"})
     => SlotSizes(view[last.view]) = <<0, 0, 0>>
  /\ DepthStencilSampledView({"DEPTH_STENCIL_ATTACHMENT", "SAMPLED"})
     => /\ view[last.view].sampler_surface_state.alloc_size > 0
        /\ view[last.view].color_rt_surface_state.alloc_size = 0
        /\ view[last.view].storage_surface_state.alloc_size = 0

\* the depth view of the image declared with {depth-stencil-attachment},
\* built for the sampled class, with no state allocated
C11_Witness ==
  /\ DepthStencilSampledView({"DEPTH_STENCIL_ATTACHMENT"})
  /\ last.info.subresourceRange.aspectMask = {"DEPTH"}
  /\ image[last.info.image].usage = {"DEPTH_STENCIL_ATTACHMENT"}
  /\ SlotSizes(view[last.view]) = <<0, 0, 0>>
  /\ last.log = <<>>

----------------------------------------------------------------------------
(* The surface state pool *)

\* the states of the pool a view holds
ViewSlots(iview) ==
  {iview[c.slot].offset : c \in {d \in UsageClasses : iview[d.slot].alloc_size > 0}}

\* the views anv_CreateImageView has returned and nobody has destroyed
LiveViews == {v \in ViewIds : view[v] # NoView /\ view[v].heap}

NoDuplicates(seq) ==
  \A j, k \in 1..Len(seq) : j # k => seq[j] # seq[k]

\* C12: while views are created and destroyed, the pool holds exactly the
\* states of the live views and no state belongs to two of them;
\* anv_DestroyImageView frees each state of size > 0 of its view once, none
\* of size 0 and none of another view, so that the pool is empty once every
\* view is destroyed.
C12_DestroyFreesOwnSlots ==
  /\ [](proc = "running" =>
          /\ surface_state_pool = UNION {ViewSlots(view[v]) : v \in LiveViews}
          /\ \A v, w \in LiveViews :
               v # w => ViewSlots(view[v]) \cap ViewSlots(view[w]) = {}
          /\ LiveViews = {} => surface_state_pool = {})
  /\ [][\A v \in LiveViews :
          view'[v] = NoView =>
            /\ last'.op = "anv_DestroyImageView"
            /\ NoDuplicates(last'.frees)
            /\ {last'.frees[k] : k \in 1..Len(last'.frees)} = ViewSlots(view[v])
            /\ -1 \notin ViewSlots(view[v])
            /\ surface_state_pool' = surface_state_pool \ ViewSlots(view[v])
            /\ \A w \in LiveViews \ {v} :
                 /\ view'[w] = view[w]
                 /\ ViewSlots(view[w]) \subseteq surface_state_pool']_vars

\* a view of three states has been destroyed while a view of one state
\* lives on: the pool holds that one state
C12_Witness ==
  /\ last.op = "anv_DestroyImageView"
  /\ Len(last.frees) = 3
  /\ \E w \in LiveViews :
       /\ Cardinality(ViewSlots(view[w])) = 1
       /\ view[w].color_rt_surface_state.alloc_size = 0
       /\ surface_state_pool = ViewSlots(view[w])
       /\ surface_state_pool # {0}

----------------------------------------------------------------------------
(* Allocation failures *)

\* an allocation from the surface state pool failed during the call
PoolAllocFailed(log) == \E k \in 1..Len(log) : log[k][1] = "alloc_failed"

\* C13: a create call in which an allocation fails (the host allocation of
\* the object or a state of the surface state pool) returns the out-of-memory
\* error with the object not existing, the states taken for it back in the
\* pool and no handle written; a create call that succeeds has filled every
\* state of a class the view is to have.
C13_NoPartialCreate ==
  /\ (last.op = "anv_image_create"
      /\ last.result = "VK_ERROR_OUT_OF_HOST_MEMORY")
     => /\ image[last.image].pc = "free"
        /\ ~image[last.image].handle
  /\ (/\ last.op \in CreateOps
      /\ \/ last.result = "VK_ERROR_OUT_OF_HOST_MEMORY"
         \/ PoolAllocFailed(last.log))
     => /\ last.result = "VK_ERROR_OUT_OF_HOST_MEMORY"
        /\ view[last.view] = NoView
        /\ surface_state_pool = UNION {ViewSlots(view[v]) : v \in LiveViews}
  /\ (last.op \in CreateOps /\ last.result = "VK_SUCCESS")
     => \A c \in UsageClasses :
          c.bit \in image[last.info.image].usage
            => /\ view[last.view][c.slot].alloc_size > 0
               /\ view[last.view][c.slot].data # NoData

\* anv_CreateImageView has taken the last two states of the pool for a view
\* of three and has not returned: the view object and the two states stay
\* allocated
C13_Witness ==
  /\ last.op = "anv_CreateImageView"
  /\ last.log = <<<<"alloc", "view">>, <<"alloc", "sampler">>, <<"fill", "sampler">>,
                  <<"alloc", "color_rt">>, <<"fill", "color_rt">>,
                  <<"alloc_failed", "storage">>>>
  /\ last.result = "crash"
  /\ view[last.view] # NoView
  /\ Cardinality(surface_state_pool) = PoolCapacity

\* the host allocation fails: the calls return the error and leave nothing
C13_HostAllocWitness ==
  /\ last.op = "anv_CreateImageView"
  /\ last.result = "VK_ERROR_OUT_OF_HOST_MEMORY"
  /\ view[last.view] = NoView
  /\ surface_state_pool # {}

----------------------------------------------------------------------------
(* The image after its creation *)

\* what anv_image_create has laid down in the image
ImageLayout(img) ==
  [color_surface |-> img.color_surface, depth_surface |-> img.depth_surface,
   stencil_surface |-> img.stencil_surface, size |-> img.size,
   alignment |-> img.alignment, usage |-> img.usage, extent |-> img.extent,
   levels |-> img.levels, array_size |-> img.array_size,
   samples |-> img.samples, type |-> img.type, format |-> img.format,
   tiling |-> img.tiling]

\* C14: once anv_image_create has returned an image, no query of a
\* subresource layout, no selection of a surface by aspect, and no building or
\* destroying of a view changes its surfaces, size, alignment, usage, extent
\* or level, layer and sample counts; the image ends only by anv_DestroyImage.
C14_ImageImmutable ==
  [][\A i \in ImageIds :
       image[i].pc = "done" =>
         \/ /\ image'[i].pc = "done"
            /\ ImageLayout(image'[i]) = ImageLayout(image[i])
         \/ /\ image'[i] = NoImage
            /\ last'.op = "anv_DestroyImage"]_vars

\* a query made of level 1 while a view of level 1 of the two-level image is
\* live: the image has its full extent and its surface
C14_Witness ==
  /\ last.op = "anv_GetImageSubresourceLayout"
  /\ last.subresource.mipLevel = 1
  /\ image[last.image].pc = "done"
  /\ image[last.image].levels = 2
  /\ image[last.image].extent.width = 4
  /\ image[last.image].size > 0
  /\ \E v \in ViewIds :
       /\ view[v] # NoView
       /\ view[v].image = last.image
       /\ view[v].base_mip = 1
       /\ view[v].extent.width = 2

----------------------------------------------------------------------------
(* Requests anv_image_create is to refuse *)

\* the extent, the level count or the layer count of the request is zero
ZeroRequest(info) ==
  \/ info.extent.width = 0
  \/ info.extent.height = 0
  \/ info.extent.depth = 0
  \/ info.mipLevels = 0
  \/ info.arrayLayers = 0

\* C15: anv_image_create refuses a request with a zero extent component or
\* a zero level or layer count before anything is laid out: no image record
\* is allocated for it, make_surface is not called and no handle is written.
C15_ZeroRequestRejected ==
  \A i \in ImageIds :
    image[i].pc # "free" => ~ZeroRequest(image[i].info)

\* a debug build has printed the failed assertion on the level count and has
\* gone on to lay out the color surface and return the image
C15_Witness ==
  \E i \in ImageIds :
    /\ build = "debug"
    /\ image[i].info.mipLevels = 0
    /\ "pCreateInfo->mipLevels > 0" \in stderr
    /\ image[i].pc = "done"
    /\ image[i].handle
    /\ image[i].result = "VK_SUCCESS"
    /\ image[i].placed = <<"COLOR">>
    /\ image[i].size > 0

\* the position of the call at make_surface of the aspect
next_position(a) ==
  CASE a = "COLOR" -> "color" [] a = "DEPTH" -> "depth" [] a = "STENCIL" -> "stencil"

\* C16: when isl_surf_init answers false for an aspect, the creation ends
\* there for good: the process has stopped, the image has the size and the
\* alignment of the surfaces laid out before, no later aspect is laid out and
\* the call has not returned an image.
C16_OracleFailureFatal ==
  \A i \in ImageIds :
    image[i].rejected # {} =>
      /\ proc = "aborted"
      /\ image[i].pc \notin {"ret", "done"}
      /\ ~image[i].handle
      /\ image[i].result # "VK_SUCCESS"
      /\ Cardinality(image[i].rejected) = 1
      /\ \A a \in image[i].rejected :
           /\ get_surface(image[i], a) = ZeroSurface
           /\ image[i].pc = next_position(a)
      /\ image[i].size =
           IF image[i].placed = <<>> THEN 0
           ELSE SurfEnd(get_surface(image[i],
                                    image[i].placed[Len(image[i].placed)]))
      /\ image[i].alignment = MaxAlignment(image[i])

\* a release build: isl_surf_init has answered false for the depth surface
\* of a depth+stencil image, the stencil surface has been laid out after it
\* and the call has returned the image
C16_Witness ==
  \E i \in ImageIds :
    /\ build = "release"
    /\ image[i].rejected = {"DEPTH"}
    /\ image[i].placed = <<"STENCIL">>
    /\ image[i].pc = "done"
    /\ image[i].handle
    /\ image[i].result = "VK_SUCCESS"

----------------------------------------------------------------------------
(* Two creations at once *)

\* the aspects of the format, in the order anv_image_create takes them
AspectOrder(format) ==
  IF ~format.has_depth /\ ~format.has_stencil THEN <<"COLOR">>
  ELSE (IF format.has_depth THEN <<"DEPTH">> ELSE <<>>)
       \o (IF format.has_stencil THEN <<"STENCIL">> ELSE <<>>)

\* those of them make_surface has returned from in the call of the image
Handled(img) ==
  SelectSeq(AspectOrder(img.info.format),
            LAMBDA a : \/ Placed(img, a)
                       \/ a \in img.rejected /\ img.pc # next_position(a))

AlignUp(n, a) == IF a = 0 THEN 0 ELSE ((n + a - 1) \div a) * a

\* What the call of the image has when it runs alone through the first k of
\* the aspects it has handled, with the geometry of its own surfaces:
\* [size, alignment, offset of the k-th surface]
RECURSIVE Alone(_, _)
Alone(img, k) ==
  IF k = 0 THEN [size |-> 0, alignment |-> 0, offset |-> 0]
  ELSE LET before == Alone(img, k - 1)
           isl == get_surface(img, Handled(img)[k]).isl
           offset == AlignUp(before.size, isl.alignment)
       IN  [size |-> offset + isl.size,
            alignment |-> IF isl.alignment > before.alignment
                          THEN isl.alignment ELSE before.alignment,
            offset |-> offset]

\* C17: while the steps of two anv_image_create calls interleave, each image
\* has the offsets, the size and the alignment its call has when it runs
\* alone with the same answers of isl_surf_init, the fields copied from its
\* own request, and a step of one call changes nothing in the other image.
C17_CreatesIndependent ==
  /\ [](\A i \in ImageIds :
          image[i].pc # "free" =>
            LET img == image[i]
                n == Len(Handled(img))
            IN  /\ img.size = Alone(img, n).size
                /\ img.alignment = Alone(img, n).alignment
                /\ \A k \in 1..n :
                     get_surface(img, Handled(img)[k]).offset = Alone(img, k).offset
                /\ \A a \in Aspects :
                     (~Placed(img, a) /\ a \notin img.rejected)
                       => get_surface(img, a) = ZeroSurface
                /\ img.format = img.info.format
                /\ img.levels = img.info.mipLevels
                /\ img.array_size = img.info.arrayLayers
                /\ img.pc # "usage"
                   => img.usage = anv_image_get_full_usage(img.info, img.info.format))
  /\ [][\A i, j \in ImageIds :
          (i # j /\ image'[i] # image[i]) => image'[j] = image[j]]_vars

\* both calls are between their depth and their stencil surface, with depth
\* surfaces of different sizes
C17_Witness ==
  /\ image[1].pc = "stencil"
  /\ image[2].pc = "stencil"
  /\ image[1].placed = <<"DEPTH">>
  /\ image[2].placed = <<"DEPTH">>
  /\ image[1].size = 3
  /\ image[2].size = 5

----------------------------------------------------------------------------
(* The channel selectors of a view *)

\* the field of struct anv_format_swizzle that belongs to a component
OwnChannel(format_swizzle, component) ==
  CASE component = "R" -> format_swizzle.r
    [] component = "G" -> format_swizzle.g
    [] component = "B" -> format_swizzle.b
    [] component = "A" -> format_swizzle.a

\* the selector of the n-th channel, counted from red
Selector(n) ==
  CASE n = 0 -> "RED" [] n = 1 -> "GREEN" [] n = 2 -> "BLUE" [] n = 3 -> "ALPHA"

\* C18: whatever the order the format gives its channels, a view that asks
\* for identity in all four components selects the channels in the format's
\* order, and for each channel an identity request and a request that names
\* the channel's own component give the same selector: the one at the
\* format's position for that channel.
C18_IdentityRoundTrip ==
  /\ (last.op = "isl_view" /\ last.info.components = Identity)
       => last.isl_view.channel_select =
            <<Selector(last.format_swizzle.r), Selector(last.format_swizzle.g),
              Selector(last.format_swizzle.b), Selector(last.format_swizzle.a)>>
  /\ (last.op = "remap_swizzle" /\ last.swizzle \in {"IDENTITY", last.component})
       => last.result = Selector(OwnChannel(last.format_swizzle, last.component))

\* an all-identity view of a format that stores blue first
C18_Witness ==
  /\ last.op = "isl_view"
  /\ last.info.components = Identity
  /\ last.format_swizzle = [r |-> 2, g |-> 1, b |-> 0, a |-> 3]
  /\ last.isl_view.channel_select = <<"BLUE", "GREEN", "RED", "ALPHA">>

----------------------------------------------------------------------------
(* The capabilities choose_isl_surf_usage derives *)

SamplingUsages == {"SAMPLED", "INPUT_ATTACHMENT", "TRANSFER_SRC"}

RenderingUsages == {"COLOR_ATTACHMENT", "TRANSFER_DST"}

\* C19: whenever choose_isl_surf_usage returns, for any usage and aspect, the
\* texture bit is set exactly when the usage holds sampled, input-attachment
\* or transfer-source, and the render-target bit exactly when it holds
\* color-attachment or transfer-destination; the aspect has no part in
\* either.  The same holds of the usage stored in every surface laid out.
C19_TextureAndRenderTarget ==
  /\ (last.op = "choose_isl_surf_usage" /\ ~last.crash)
       => /\ "TEXTURE" \in last.bits <=> last.vk_usage \cap SamplingUsages # {}
          /\ "RENDER_TARGET" \in last.bits
               <=> last.vk_usage \cap RenderingUsages # {}
  /\ \A i \in ImageIds : \A k \in 1..Len(image[i].placed) :
       LET bits == get_surface(image[i], image[i].placed[k]).isl.usage
       IN  /\ "TEXTURE" \in bits <=> image[i].usage \cap SamplingUsages # {}
           /\ "RENDER_TARGET" \in bits
                <=> image[i].usage \cap RenderingUsages # {}

\* a transfer-only usage resolved for the stencil aspect
C19_Witness ==
  /\ last.op = "choose_isl_surf_usage"
  /\ ~last.crash
  /\ last.vk_usage = {"TRANSFER_SRC", "TRANSFER_DST"}
  /\ last.aspect = "STENCIL"
  /\ {"TEXTURE", "RENDER_TARGET"} \subseteq last.bits

\* C20: with depth/stencil-attachment in the usage, the depth aspect gets the
\* depth bit and not the stencil bit, the stencil aspect the stencil bit and
\* not the depth bit, and any other aspect is a fatal error that returns no
\* bits; without it neither bit is set and no aspect is an error.  So a
\* color-format image whose usage holds depth/stencil-attachment is never
\* laid out and never handed to the caller.
C20_DepthStencilAspect ==
  /\ last.op = "choose_isl_surf_usage"
       => IF "DEPTH_STENCIL_ATTACHMENT" \in last.vk_usage
          THEN CASE last.aspect = "DEPTH" ->
                      ~last.crash /\ last.bits \cap {"DEPTH", "STENCIL"} = {"DEPTH"}
                 [] last.aspect = "STENCIL" ->
                      ~last.crash /\ last.bits \cap {"DEPTH", "STENCIL"} = {"STENCIL"}
                 [] OTHER -> last.crash /\ last.bits = {}
          ELSE ~last.crash /\ last.bits \cap {"DEPTH", "STENCIL"} = {}
  /\ \A i \in ImageIds :
       (anv_format_is_color(image[i].format)
        /\ "DEPTH_STENCIL_ATTACHMENT" \in image[i].usage)
         => image[i].placed = <<>> /\ ~image[i].handle

\* the color aspect resolved for a depth/stencil-attachment usage, stopped
\* by unreachable()
C20_Witness ==
  /\ last.op = "choose_isl_surf_usage"
  /\ "DEPTH_STENCIL_ATTACHMENT" \in last.vk_usage
  /\ last.aspect = "COLOR"
  /\ last.crash
  /\ proc = "aborted"

----------------------------------------------------------------------------
(* The usage stored in an image *)

\* the image has been through line 246
UsageStored(img) == img.pc \notin {"free", "usage"}

\* the declared usage and what the four rules add to it
WidenedUsage(declared, samples, format) ==
  declared
  \cup (IF samples > 1 /\ "COLOR_ATTACHMENT" \in declared THEN {"SAMPLED"} ELSE {})
  \cup (IF "TRANSFER_SRC" \in declared THEN {"SAMPLED"} ELSE {})
  \cup (IF "TRANSFER_DST" \in declared THEN {"COLOR_ATTACHMENT"} ELSE {})
  \cup (IF "TRANSFER_DST" \in declared /\ (format.has_depth \/ format.has_stencil)
        THEN {"DEPTH_STENCIL_ATTACHMENT"} ELSE {})

\* C21: the usage stored in an image is the declared usage plus sampled for a
\* multisampled image with color-attachment declared, sampled for
\* transfer-source declared, color-attachment for transfer-destination
\* declared and depth/stencil-attachment for transfer-destination declared on
\* a depth/stencil format, and nothing else; it holds the declared usage; and
\* every surface of the image is laid out for that one stored usage.
C21_StoredUsage ==
  \A i \in ImageIds :
    UsageStored(image[i]) =>
      /\ image[i].usage = WidenedUsage(image[i].info.usage, image[i].info.samples,
                                       image[i].format)
      /\ image[i].info.usage \subseteq image[i].usage
      /\ \A k \in 1..Len(image[i].placed) :
           LET bits == get_surface(image[i], image[i].placed[k]).isl.usage
           IN  /\ "TEXTURE" \in bits <=> image[i].usage \cap SamplingUsages # {}
               /\ "RENDER_TARGET" \in bits
                    <=> image[i].usage \cap RenderingUsages # {}

\* a multisampled depth/stencil image declared as a transfer destination,
\* both aspects laid out
C21_Witness ==
  \E i \in ImageIds :
    /\ image[i].pc = "done"
    /\ image[i].info.samples > 1
    /\ image[i].info.usage = {"TRANSFER_DST"}
    /\ image[i].usage = {"TRANSFER_DST", "COLOR_ATTACHMENT",
                         "DEPTH_STENCIL_ATTACHMENT"}
    /\ image[i].placed = <<"DEPTH", "STENCIL">>

\* C22: the stored usage is closed under the rules: a multisampled image
\* whose stored usage holds color-attachment, declared or implied, holds
\* sampled as well, and widening the stored usage again changes nothing.
C22_StoredUsageClosed ==
  \A i \in ImageIds :
    UsageStored(image[i]) =>
      /\ (image[i].samples > 1 /\ "COLOR_ATTACHMENT" \in image[i].usage)
           => "SAMPLED" \in image[i].usage
      /\ WidenedUsage(image[i].usage, image[i].samples, image[i].format)
           = image[i].usage

\* a multisampled image with color-attachment declared
C22_Witness ==
  \E i \in ImageIds :
    /\ image[i].pc = "done"
    /\ image[i].samples > 1
    /\ image[i].info.usage = {"COLOR_ATTACHMENT"}
    /\ image[i].usage = {"COLOR_ATTACHMENT", "SAMPLED"}

----------------------------------------------------------------------------
(* The surface selected for an aspect mask *)

Selected == last.op = "anv_image_get_surface_for_aspect_mask"

SurfaceNames == {"color_surface", "depth_surface", "stencil_surface"}

\* the call ended in the fatal error and returned nothing
SelectFailed == last.result \in {"abort", "crash"}

\* the aspect a surface of the image is laid out for
AspectOf(surface_name) ==
  CASE surface_name = "color_surface" -> "COLOR"
    [] surface_name = "depth_surface" -> "DEPTH"
    [] surface_name = "stencil_surface" -> "STENCIL"

ReturnedLaidOut ==
  last.result \in SurfaceNames
    => Placed(image[last.image], AspectOf(last.result))

\* C23: for {depth} the selector returns the depth surface, and fails when the
\* format has no depth channel; for {stencil} the stencil surface, and fails
\* when the format has no stencil channel; for {depth, stencil} the depth
\* surface when the format has depth, else the stencil surface when it has
\* stencil.  So for these masks it never returns a surface that was not laid
\* out.
C23_DepthStencilSelection ==
  Selected =>
    LET f == image[last.image].format
    IN  /\ last.aspect_mask = {"DEPTH"}
             => IF f.has_depth THEN last.result = "depth_surface"
                ELSE SelectFailed
        /\ last.aspect_mask = {"STENCIL"}
             => IF f.has_stencil THEN last.result = "stencil_surface"
                ELSE SelectFailed
        /\ (last.aspect_mask = {"DEPTH", "STENCIL"} /\ f.has_depth)
             => last.result = "depth_surface"
        /\ (last.aspect_mask = {"DEPTH", "STENCIL"} /\ ~f.has_depth
            /\ f.has_stencil)
             => last.result = "stencil_surface"
        /\ last.aspect_mask \in {{"DEPTH"}, {"STENCIL"}, {"DEPTH", "STENCIL"}}
             => ReturnedLaidOut

\* {depth, stencil} on a stencil-only image selects the stencil surface
C23_Witness ==
  /\ Selected
  /\ last.aspect_mask = {"DEPTH", "STENCIL"}
  /\ image[last.image].format = S8_UINT
  /\ last.result = "stencil_surface"
  /\ Placed(image[last.image], "STENCIL")

\* C24: for {color} the selector returns the color surface when the format has
\* neither depth nor stencil; when it has depth the depth surface, otherwise
\* when it has stencil the stencil surface; never a color surface that was
\* not laid out.
C24_ColorSelection ==
  (Selected /\ last.aspect_mask = {"COLOR"}) =>
    LET f == image[last.image].format
    IN  /\ last.result = (IF f.has_depth THEN "depth_surface"
                          ELSE IF f.has_stencil THEN "stencil_surface"
                          ELSE "color_surface")
        /\ ReturnedLaidOut

\* {color} on a stencil-only image selects the stencil surface
C24_Witness ==
  /\ Selected
  /\ last.aspect_mask = {"COLOR"}
  /\ image[last.image].format = S8_UINT
  /\ last.result = "stencil_surface"

\* C25: the selector fails with the fatal error and returns no surface for
\* every mask other than {color}, {depth}, {stencil} and {depth, stencil},
\* and for {depth, stencil} on a format with neither depth nor stencil.
C25_OtherMasksFatal ==
  Selected =>
    LET f == image[last.image].format
    IN  (\/ last.aspect_mask \notin {{"COLOR"}, {"DEPTH"}, {"STENCIL"},
                                     {"DEPTH", "STENCIL"}}
         \/ (last.aspect_mask = {"DEPTH", "STENCIL"} /\ ~f.has_depth
             /\ ~f.has_stencil))
          => SelectFailed

\* color combined with depth, stopped by unreachable()
C25_Witness ==
  /\ Selected
  /\ last.aspect_mask = {"COLOR", "DEPTH"}
  /\ last.result = "abort"
  /\ proc = "aborted"

----------------------------------------------------------------------------
(* Views of block-compressed images *)

\* the view format is uncompressed and the image's format block-compressed
Reinterprets(info, img) ==
  ~info.format.isl_format.compressed /\ img.format.isl_format.compressed

\* the least n with n * d >= m
CeilDiv(m, d) == CHOOSE n \in 0..m : n * d >= m /\ (n = 0 \/ (n - 1) * d < m)

Halved(n, times) ==
  IF n = 0 THEN 0
  ELSE IF n \div Pow2(times) = 0 THEN 1 ELSE n \div Pow2(times)

\* C26: in a view of an uncompressed format on a block-compressed image every
\* descriptor has base level 0 and base layer 0 and the level-0 extent
\* <<row pitch in elements, array pitch in element rows x array layers,
\* ceil(depth minified by the base level / block depth)>>; in every other view
\* the descriptors have the requested base level and layer and the image's
\* own extent.
C26_CompressedReinterpret ==
  ViewBuilt =>
    LET img == image[last.info.image]
        range == last.info.subresourceRange
    IN  \A c \in UsageClasses :
          LET d == view[last.view][c.slot].data
          IN  d.kind = "surface" =>
                IF Reinterprets(last.info, img)
                THEN /\ d.view.base_level = 0
                     /\ d.view.base_array_layer = 0
                     /\ d.level0_extent_px =
                          [width |-> img[d.surf].isl.row_pitch
                                       \div img.format.isl_format.bs,
                           height |-> img[d.surf].isl.array_pitch_el_rows
                                        * img.array_size,
                           depth |-> CeilDiv(Halved(img.extent.depth,
                                                    range.baseMipLevel),
                                             img.format.isl_format.bd)]
                ELSE /\ d.view.base_level = range.baseMipLevel
                     /\ d.view.base_array_layer = range.baseArrayLayer
                     /\ d.level0_extent_px = img.extent

\* level 0 of a 3D image of blocks two deep, three texels deep, seen through
\* an uncompressed format: two blocks deep
C26_Witness ==
  /\ ViewBuilt
  /\ Reinterprets(last.info, image[last.info.image])
  /\ image[last.info.image].format = BLOCK_4X4X2
  /\ last.info.subresourceRange.baseMipLevel = 0
  /\ view[last.view].sampler_surface_state.data.kind = "surface"
  /\ view[last.view].sampler_surface_state.data.level0_extent_px.depth = 2
  /\ view[last.view].sampler_surface_state.data.level0_extent_px.width # 4

\* a view of level 1 and layer 1 of a compressed image through an
\* uncompressed format
C26_WitnessBase ==
  /\ ViewBuilt
  /\ Reinterprets(last.info, image[last.info.image])
  /\ last.info.subresourceRange.baseMipLevel = 1
  /\ last.info.subresourceRange.baseArrayLayer = 1
  /\ view[last.view].sampler_surface_state.data.kind = "surface"
  /\ view[last.view].sampler_surface_state.data.view.base_level = 0

----------------------------------------------------------------------------
(* The storage descriptor of a view *)

\* the last call built a view with a storage descriptor
StorageBuilt ==
  ViewBuilt /\ view[last.view].storage_surface_state.alloc_size > 0

\* C27: when the storage descriptor of a view is built and the view format
\* has no typed read-write representation, the descriptor is a raw buffer
\* descriptor of stride 1 that starts at the view's offset and ends at the
\* end of the view's surface; when the format has one, the descriptor is a
\* typed storage descriptor.
C27_RawStorageRange ==
  StorageBuilt =>
    LET iview == view[last.view]
        img == image[last.info.image]
        surface == img[iview.storage_image_param.surf]
        d == iview.storage_surface_state.data
    IN  IF has_matching_storage_typed_format(
             device, anv_get_isl_format(last.info.format))
        THEN d.kind = "surface" /\ "STORAGE" \in d.view.usage
        ELSE /\ d.kind = "buffer"
             /\ d.format = "RAW"
             /\ d.stride = 1
             /\ d.offset = iview.offset
             /\ d.offset + d.range = img.offset + SurfEnd(surface)

\* a raw descriptor of a 16-byte format, starting at the view's offset
C27_Witness ==
  /\ StorageBuilt
  /\ last.info.format = R32G32B32A32_SFLOAT
  /\ view[last.view].storage_surface_state.data.kind = "buffer"
  /\ view[last.view].storage_surface_state.data.stride = 1
  /\ view[last.view].storage_surface_state.data.offset = view[last.view].offset

----------------------------------------------------------------------------
(* The flushes of a view's descriptors *)

\* the positions of an event in the log of a call
At(log, e) == {k \in 1..Len(log) : log[k] = e}

Allocations(log) == {k \in 1..Len(log) : log[k][1] = "alloc"}

\* C28: on a device without coherent caches a call that builds a view flushes
\* each descriptor it builds exactly once, after the descriptor has been
\* filled and before the next state is allocated; a descriptor that is not
\* built is never flushed, and on a coherent device nothing is flushed.
C28_FlushPerDescriptor ==
  ViewBuilt =>
    \A c \in UsageClasses :
      LET built == view[last.view][c.slot].alloc_size > 0
          flushes == At(last.log, <<"clflush", c.class>>)
      IN  IF built /\ ~device.info.has_llc
          THEN /\ Cardinality(flushes) = 1
               /\ \A f \in flushes :
                    /\ \A k \in At(last.log, <<"fill", c.class>>) : k < f
                    /\ \A k \in At(last.log, <<"image_param", c.class>>) : k < f
                    /\ \A a \in At(last.log, <<"alloc", c.class>>) :
                         /\ a < f
                         /\ \A k \in Allocations(last.log) : k > a => k > f
          ELSE flushes = {}

\* three descriptors built on a device without coherent caches, one left out
\* on the same device
C28_Witness ==
  /\ ViewBuilt
  /\ ~device.info.has_llc
  /\ view[last.view].sampler_surface_state.alloc_size > 0
  /\ view[last.view].color_rt_surface_state.alloc_size = 0
  /\ view[last.view].storage_surface_state.alloc_size > 0
  /\ last.log = <<<<"alloc", "sampler">>, <<"fill", "sampler">>,
                  <<"clflush", "sampler">>, <<"alloc", "storage">>,
                  <<"fill", "storage">>, <<"image_param", "storage">>,
                  <<"clflush", "storage">>>>

----------------------------------------------------------------------------
(* The aspect checks of anv_validate_CreateImageView *)

DepthAsserts == {"image->format->has_depth", "view_format_info->has_depth"}

StencilAsserts == {"image->format->has_stencil", "view_format_info->has_stencil"}

\* the last call was the validating entry point of a debug build, with a
\* depth and/or stencil mask and a range its other assertions accept
ValidatedDepthStencil ==
  /\ last.op = "anv_validate_CreateImageView"
  /\ build = "debug"
  /\ last.info.subresourceRange.aspectMask # {}
  /\ last.info.subresourceRange.aspectMask \subseteq {"DEPTH", "STENCIL"}
  /\ LevelRangeValid(image[last.info.image], last.info.subresourceRange)
  /\ last.info.subresourceRange.layerCount > 0
  /\ last.info.subresourceRange.baseArrayLayer
       + last.info.subresourceRange.layerCount
         <= image[last.info.image].array_size

\* C29: the validating entry point requires a depth channel of the image
\* format and of the view format exactly when the depth bit is in the mask,
\* and a stencil channel of both exactly when the stencil bit is in the mask:
\* a request without the depth bit is never rejected for depth, and a request
\* with the depth bit on a format without depth is rejected.
C29_AspectChecksPerBit ==
  ValidatedDepthStencil =>
    LET mask == last.info.subresourceRange.aspectMask
        f == image[last.info.image].format
        vf == last.info.format
    IN  /\ "DEPTH" \notin mask => last.at \notin DepthAsserts
        /\ ("DEPTH" \in mask /\ ~(f.has_depth /\ vf.has_depth))
             => last.result = "abort" /\ last.at \in DepthAsserts
        /\ "STENCIL" \notin mask => last.at \notin StencilAsserts
        /\ ("STENCIL" \in mask /\ ~(f.has_stencil /\ vf.has_stencil))
             => last.result = "abort"
                /\ last.at \in DepthAsserts \cup StencilAsserts

\* a stencil-only view of a depth+stencil image, accepted
C29_Witness ==
  /\ ValidatedDepthStencil
  /\ last.info.subresourceRange.aspectMask = {"STENCIL"}
  /\ image[last.info.image].format = D24_UNORM_S8_UINT
  /\ last.info.format = D24_UNORM_S8_UINT
  /\ last.result = "VK_SUCCESS"

----------------------------------------------------------------------------
(* The range of a buffer view *)

BufferViewCreated ==
  last.op = "anv_CreateBufferView" /\ last.result = "VK_SUCCESS"

\* C30: a buffer view created with range WHOLE_SIZE at offset o of a buffer of
\* size s bound at offset b, o <= s, has range s - o whatever b is, so that
\* its window ends at b + s, the end of the buffer, and the subtraction does
\* not wrap; a view created with an explicit range has that range.
C30_BufferViewRange ==
  (BufferViewCreated /\ last.info.offset <= last.buffer.size) =>
    IF last.info.range = VK_WHOLE_SIZE
    THEN /\ last.view.range = last.buffer.size - last.info.offset
         /\ last.view.offset + last.view.range
              = last.buffer.offset + last.buffer.size
    ELSE last.view.range = last.info.range

\* the whole range from offset 1 of a buffer of size 4 bound at the start of
\* its allocation
C30_Witness ==
  /\ BufferViewCreated
  /\ last.buffer.offset = 0
  /\ last.buffer.size = 4
  /\ last.info.offset = 1
  /\ last.info.range = VK_WHOLE_SIZE
  /\ last.view.range = 3

----------------------------------------------------------------------------
(* SpecLayout: one image at a time, every geometry the calculator answers *)

InitWith(devices) ==
  /\ build \in Builds
  /\ proc = "running"
  /\ stderr = {}
  /\ image = [i \in ImageIds |-> NoImage]
  /\ last = [op |-> ""]
  /\ device \in devices
  /\ view = [v \in ViewIds |-> NoView]
  /\ surface_state_pool = {}

InitLayout == InitWith(LayoutDevices)

NextLayout ==
  \/ \E i \in LayoutIds, info \in LayoutInfos, alloc_ok \in BOOLEAN :
       anv_image_create_alloc(i, info, alloc_ok)
  \/ \E i \in LayoutIds : anv_image_create_usage(i)
  \/ \E i \in LayoutIds, o \in LayoutOracle : make_surface_color(i, o)
  \/ \E i \in LayoutIds, o \in LayoutOracle : make_surface_depth(i, o)
  \/ \E i \in LayoutIds, o \in LayoutOracle : make_surface_stencil(i, o)
  \/ \E i \in LayoutIds : anv_image_create_return(i)
  \/ \E i \in LayoutIds : anv_DestroyImage(i)
  \/ \E i \in LayoutIds, sub \in Subresources :
       anv_GetImageSubresourceLayout(i, sub)

SpecLayout == InitLayout /\ [][NextLayout]_vars

----------------------------------------------------------------------------
(* SpecView: one image at a time and one view of it at a time, built through
   each of the three entry points *)

InitView == InitWith(ViewDevices)

NextView ==
  \/ \E i \in SpecViewImages, info \in ViewImageInfos :
       anv_image_create_alloc(i, info, TRUE)
  \/ \E i \in SpecViewImages : anv_image_create_usage(i)
  \/ \E i \in SpecViewImages, o \in ViewOracle : make_surface_color(i, o)
  \/ \E i \in SpecViewImages, o \in ViewOracle : make_surface_depth(i, o)
  \/ \E i \in SpecViewImages, o \in ViewOracle : make_surface_stencil(i, o)
  \/ \E i \in SpecViewImages : anv_image_create_return(i)
  \/ \E i \in SpecViewImages, b \in ViewBinds : anv_BindImageMemory(i, b[1], b[2])
  \/ \E i \in SpecViewImages : anv_DestroyImage(i)
  \/ \E v \in SpecViewViews, c \in SpecViewCreateCalls :
       anv_CreateImageView(v, c[1], c[2])
  \/ \E v \in SpecViewViews, c \in SpecViewCreateCalls :
       anv_validate_CreateImageView(v, c[1], c[2])
  \/ \E v \in SpecViewViews, c \in SpecViewInitCalls :
       anv_image_view_init_call(v, c[1], c[2], c[3], c[4])
  \/ \E v \in SpecViewViews : anv_image_view_leave(v)
  \/ \E v \in SpecViewViews : anv_DestroyImageView(v)

SpecView == InitView /\ [][NextView]_vars

----------------------------------------------------------------------------
(* SpecPool: two images and two views of them, created and destroyed through
   the entry points of the API *)

PoolImageInfos ==
  {ViewImage("2D", R8G8B8A8_UNORM, 1, 1, 1, {"SAMPLED", "COLOR_ATTACHMENT", "STORAGE"}),
   ViewImage("2D", R32G32B32A32_SFLOAT, 1, 1, 1, {"SAMPLED", "STORAGE"}),
   ViewImage("2D", R8G8B8A8_UNORM, 1, 1, 1, {"SAMPLED"}),
   ViewImage("2D", D24_UNORM_S8_UINT, 1, 1, 1, {"DEPTH_STENCIL_ATTACHMENT"})}

\* the view of the whole image in its own format
PoolViewInfos ==
  {ViewInfo(i, f, {"COLOR"}, 0, 1, 0, 1) :
     i \in ImageIds, f \in {R8G8B8A8_UNORM, R32G32B32A32_SFLOAT}}

InitPool == InitWith({Device(TRUE, 7, FALSE)})

NextPool ==
  \/ \E i \in ImageIds, info \in PoolImageInfos, alloc_ok \in BOOLEAN :
       anv_image_create_alloc(i, info, alloc_ok)
  \/ \E i \in ImageIds : anv_image_create_usage(i)
  \/ \E i \in ImageIds, o \in ViewOracle : make_surface_color(i, o)
  \/ \E i \in ImageIds, o \in ViewOracle : make_surface_depth(i, o)
  \/ \E i \in ImageIds, o \in ViewOracle : make_surface_stencil(i, o)
  \/ \E i \in ImageIds : anv_image_create_return(i)
  \/ \E i \in ImageIds, b \in ViewBinds : anv_BindImageMemory(i, b[1], b[2])
  \/ \E i \in ImageIds : anv_DestroyImage(i)
  \/ \E v \in ViewIds, info \in PoolViewInfos, alloc_ok \in BOOLEAN :
       anv_CreateImageView(v, info, alloc_ok)
  \/ \E v \in ViewIds : anv_DestroyImageView(v)

SpecPool == InitPool /\ [][NextPool]_vars

----------------------------------------------------------------------------
(* SpecFrame: the calls made on a created image: queries, selections of a
   surface, views built and destroyed *)

FrameViewInfos ==
  UNION {AspectInfos(i) \cup {ViewInfo(i, R8G8B8A8_UNORM, {"COLOR"}, 1, 1, 0, 1)} :
           i \in SpecViewImages}

FrameSubresources ==
  {[aspectMask |-> m, mipLevel |-> l, arrayLayer |-> 0] :
     m \in {{"COLOR"}, {"STENCIL"}}, l \in {0, 1}}

FrameAspects == {{"COLOR"}, {"DEPTH"}, {"DEPTH", "STENCIL"}, {}}

InitFrame == InitWith(LayoutDevices)

NextFrame ==
  \/ \E i \in SpecViewImages, info \in ViewImageInfos :
       anv_image_create_alloc(i, info, TRUE)
  \/ \E i \in SpecViewImages : anv_image_create_usage(i)
  \/ \E i \in SpecViewImages, o \in ViewOracle : make_surface_color(i, o)
  \/ \E i \in SpecViewImages, o \in ViewOracle : make_surface_depth(i, o)
  \/ \E i \in SpecViewImages, o \in ViewOracle : make_surface_stencil(i, o)
  \/ \E i \in SpecViewImages : anv_image_create_return(i)
  \/ \E i \in SpecViewImages, b \in ViewBinds : anv_BindImageMemory(i, b[1], b[2])
  \/ \E i \in SpecViewImages : anv_DestroyImage(i)
  \/ \E i \in SpecViewImages, sub \in FrameSubresources :
       anv_GetImageSubresourceLayout(i, sub)
  \/ \E i \in SpecViewImages, m \in FrameAspects :
       anv_image_get_surface_for_aspect_mask_call(i, m)
  \/ \E v \in SpecViewViews, info \in FrameViewInfos, alloc_ok \in BOOLEAN :
       anv_CreateImageView(v, info, alloc_ok)
  \/ \E v \in SpecViewViews, c \in SpecViewInitCalls :
       anv_image_view_init_call(v, c[1], c[2], c[3], c[4])
  \/ \E v \in SpecViewViews : anv_image_view_leave(v)
  \/ \E v \in SpecViewViews : anv_DestroyImageView(v)

SpecFrame == InitFrame /\ [][NextFrame]_vars

----------------------------------------------------------------------------
(* SpecCreate: two anv_image_create calls whose steps interleave, with
   requests the caller must not make and answers isl_surf_init may give *)

CreateImage(format, width, levels, layers, usage) ==
  [imageType |-> "2D", format |-> format,
   extent |-> [width |-> width, height |-> 4, depth |-> 1],
   mipLevels |-> levels, arrayLayers |-> layers, samples |-> 1,
   tiling |-> "OPTIMAL", usage |-> usage]

CreateInfos ==
  {CreateImage(R8G8B8A8_UNORM, 4, 1, 1, {"SAMPLED"}),
   CreateImage(R8G8B8A8_UNORM, 0, 1, 1, {"SAMPLED"}),
   CreateImage(R8G8B8A8_UNORM, 4, 0, 1, {"SAMPLED"}),
   CreateImage(R8G8B8A8_UNORM, 4, 1, 0, {"SAMPLED"}),
   CreateImage(R8G8B8A8_UNORM, 4, 1, 1, {"DEPTH_STENCIL_ATTACHMENT"}),
   CreateImage(D24_UNORM_S8_UINT, 4, 1, 1, {"DEPTH_STENCIL_ATTACHMENT"}),
   CreateImage(D24_UNORM_S8_UINT, 4, 1, 1, {"TRANSFER_DST"}),
   CreateImage(S8_UINT, 4, 1, 1, {"SAMPLED"})}

\* the answers of isl_surf_init: two geometries and a refusal
CreateOracle ==
  {[ok |-> TRUE,
    isl |-> [size |-> 3, alignment |-> 2, row_pitch |-> 4,
             array_pitch_el_rows |-> 2, usage |-> {},
             format |-> NoFormat.isl_format]],
   [ok |-> TRUE,
    isl |-> [size |-> 5, alignment |-> 4, row_pitch |-> 8,
             array_pitch_el_rows |-> 2, usage |-> {},
             format |-> NoFormat.isl_format]],
   [ok |-> FALSE, isl |-> ZeroIsl]}

InitCreate == InitWith(LayoutDevices)

NextCreate ==
  \/ \E i \in ImageIds, info \in CreateInfos, alloc_ok \in BOOLEAN :
       anv_image_create_alloc(i, info, alloc_ok)
  \/ \E i \in ImageIds : anv_image_create_usage(i)
  \/ \E i \in ImageIds, o \in CreateOracle : make_surface_color(i, o)
  \/ \E i \in ImageIds, o \in CreateOracle : make_surface_depth(i, o)
  \/ \E i \in ImageIds, o \in CreateOracle : make_surface_stencil(i, o)
  \/ \E i \in ImageIds : anv_image_create_return(i)
  \/ \E i \in ImageIds : anv_DestroyImage(i)

SpecCreate == InitCreate /\ [][NextCreate]_vars

----------------------------------------------------------------------------
(* SpecPure: choose_isl_surf_usage and remap_swizzle called on their own with
   every argument of the sets below, and single images created, the color
   format with a depth/stencil usage among them *)

VkImageUsages ==
  {"TRANSFER_SRC", "TRANSFER_DST", "SAMPLED", "STORAGE", "COLOR_ATTACHMENT",
   "DEPTH_STENCIL_ATTACHMENT", "TRANSIENT_ATTACHMENT", "INPUT_ATTACHMENT"}

VkImageAspects == {"COLOR", "DEPTH", "STENCIL", "METADATA"}

VkComponentSwizzles == {"IDENTITY", "ZERO", "ONE", "R", "G", "B", "A"}

\* struct anv_format_swizzle: four fields of two bits
FormatSwizzles == [r : 0..3, g : 0..3, b : 0..3, a : 0..3]

PureComponents ==
  {Identity,
   [r |-> "R", g |-> "G", b |-> "B", a |-> "A"],
   [r |-> "B", g |-> "IDENTITY", b |-> "R", a |-> "ONE"]}

PureInputs ==
  {[op |-> "input", fn |-> "choose_isl_surf_usage", vk_usage |-> u,
    aspect |-> a] : u \in SUBSET VkImageUsages, a \in VkImageAspects}
  \cup {[op |-> "input", fn |-> "remap_swizzle", swizzle |-> s,
         component |-> c, format_swizzle |-> f] :
           s \in VkComponentSwizzles, c \in {"R", "G", "B", "A"},
           f \in FormatSwizzles}
  \cup {[op |-> "input", fn |-> "isl_view",
         info |-> [ViewInfo(1, R8G8B8A8_UNORM, {"COLOR"}, 0, 1, 0, 1)
                     EXCEPT !.components = c],
         format_swizzle |-> f] : c \in PureComponents, f \in FormatSwizzles}

PureInfos ==
  {CreateImage(R8G8B8A8_UNORM, 4, 1, 1, {"SAMPLED"}),
   CreateImage(R8G8B8A8_UNORM, 4, 1, 1, {"TRANSFER_SRC", "TRANSFER_DST"}),
   CreateImage(R8G8B8A8_UNORM, 4, 1, 1, {"DEPTH_STENCIL_ATTACHMENT"}),
   CreateImage(D24_UNORM_S8_UINT, 4, 1, 1, {"DEPTH_STENCIL_ATTACHMENT"}),
   CreateImage(D24_UNORM_S8_UINT, 4, 1, 1, {"TRANSFER_DST"}),
   CreateImage(S8_UINT, 4, 1, 1, {"INPUT_ATTACHMENT"})}

PureOracle == {o \in CreateOracle : o.ok}

InitPure ==
  /\ build \in Builds
  /\ proc = "running"
  /\ stderr = {}
  /\ image = [i \in ImageIds |-> NoImage]
  /\ last \in PureInputs \cup {[op |-> ""]}
  /\ device \in LayoutDevices
  /\ view = [v \in ViewIds |-> NoView]
  /\ surface_state_pool = {}

NextPure ==
  \/ choose_isl_surf_usage_call
  \/ remap_swizzle_call
  \/ isl_view_call
  \/ \E i \in LayoutIds, info \in PureInfos :
       last.op = "" /\ anv_image_create_alloc(i, info, TRUE)
  \/ \E i \in LayoutIds : anv_image_create_usage(i)
  \/ \E i \in LayoutIds, o \in PureOracle : make_surface_color(i, o)
  \/ \E i \in LayoutIds, o \in PureOracle : make_surface_depth(i, o)
  \/ \E i \in LayoutIds, o \in PureOracle : make_surface_stencil(i, o)
  \/ \E i \in LayoutIds : anv_image_create_return(i)
  \/ \E i \in LayoutIds : anv_DestroyImage(i)

SpecPure == InitPure /\ [][NextPure]_vars

----------------------------------------------------------------------------
(* SpecUsage: one image at a time, created with every declared usage, single
   and multisampled, of a color, a depth/stencil and a stencil format *)

UsageInfos ==
  {[CreateImage(f, 4, 1, 1, u) EXCEPT !.samples = n] :
     f \in {R8G8B8A8_UNORM, D24_UNORM_S8_UINT, S8_UINT},
     u \in SUBSET VkImageUsages, n \in {1, 4}}

InitUsage == InitWith(LayoutDevices)

NextUsage ==
  \/ \E i \in LayoutIds, info \in UsageInfos :
       anv_image_create_alloc(i, info, TRUE)
  \/ \E i \in LayoutIds : anv_image_create_usage(i)
  \/ \E i \in LayoutIds, o \in PureOracle : make_surface_color(i, o)
  \/ \E i \in LayoutIds, o \in PureOracle : make_surface_depth(i, o)
  \/ \E i \in LayoutIds, o \in PureOracle : make_surface_stencil(i, o)
  \/ \E i \in LayoutIds : anv_image_create_return(i)
  \/ \E i \in LayoutIds : anv_DestroyImage(i)

SpecUsage == InitUsage /\ [][NextUsage]_vars

----------------------------------------------------------------------------
(* SpecAspect: one image of each kind of format, and the surface selected
   for every aspect mask *)

AspectImageInfos ==
  {CreateImage(f, 4, 1, 1, {"SAMPLED"}) :
     f \in {R8G8B8A8_UNORM, D32_SFLOAT, S8_UINT, D24_UNORM_S8_UINT}}

AspectMasks == SUBSET VkImageAspects

InitAspect == InitWith(LayoutDevices)

NextAspect ==
  \/ \E i \in LayoutIds, info \in AspectImageInfos :
       anv_image_create_alloc(i, info, TRUE)
  \/ \E i \in LayoutIds : anv_image_create_usage(i)
  \/ \E i \in LayoutIds, o \in PureOracle : make_surface_color(i, o)
  \/ \E i \in LayoutIds, o \in PureOracle : make_surface_depth(i, o)
  \/ \E i \in LayoutIds, o \in PureOracle : make_surface_stencil(i, o)
  \/ \E i \in LayoutIds : anv_image_create_return(i)
  \/ \E i \in LayoutIds : anv_DestroyImage(i)
  \/ \E i \in LayoutIds, m \in AspectMasks :
       anv_image_get_surface_for_aspect_mask_call(i, m)

SpecAspect == InitAspect /\ [][NextAspect]_vars

----------------------------------------------------------------------------
(* SpecBlock: views of compressed and uncompressed formats on compressed and
   uncompressed images, at base levels and layers 0 and 1 *)

BlockImageInfos ==
  {ViewImage("2D", BC1_RGB_UNORM_BLOCK, 1, 2, 2,
             {"SAMPLED", "COLOR_ATTACHMENT", "STORAGE"}),
   ViewImage("3D", BLOCK_4X4X2, 3, 2, 1, {"SAMPLED", "STORAGE"}),
   ViewImage("2D", R8G8B8A8_UNORM, 1, 2, 2, {"SAMPLED", "COLOR_ATTACHMENT"})}

BlockOracle ==
  {[ok |-> TRUE,
    isl |-> [size |-> 96, alignment |-> 64, row_pitch |-> p,
             array_pitch_el_rows |-> 3, usage |-> {},
             format |-> NoFormat.isl_format]] : p \in {16, 32}}

BlockViewInfos ==
  {ViewInfo(1, f, {"COLOR"}, l, 1, a, 1) :
     f \in {R16G16B16A16_UINT, BC1_RGB_UNORM_BLOCK, R8G8B8A8_UNORM},
     l \in {0, 1}, a \in {0, 1}}

InitBlock == InitWith(LayoutDevices)

NextBlock ==
  \/ \E i \in SpecViewImages, info \in BlockImageInfos :
       anv_image_create_alloc(i, info, TRUE)
  \/ \E i \in SpecViewImages : anv_image_create_usage(i)
  \/ \E i \in SpecViewImages, o \in BlockOracle : make_surface_color(i, o)
  \/ \E i \in SpecViewImages : anv_image_create_return(i)
  \/ \E i \in SpecViewImages, b \in ViewBinds : anv_BindImageMemory(i, b[1], b[2])
  \/ \E i \in SpecViewImages : anv_DestroyImage(i)
  \/ \E v \in SpecViewViews, info \in BlockViewInfos, alloc_ok \in BOOLEAN :
       anv_CreateImageView(v, info, alloc_ok)
  \/ \E v \in SpecViewViews, info \in BlockViewInfos :
       anv_image_view_init_call(v, info, TRUE, 0, {"SAMPLED", "STORAGE"})
  \/ \E v \in SpecViewViews : anv_image_view_leave(v)
  \/ \E v \in SpecViewViews : anv_DestroyImageView(v)

SpecBlock == InitBlock /\ [][NextBlock]_vars

----------------------------------------------------------------------------
(* SpecBuffer: anv_CreateBufferView on buffers of every size, bound at every
   offset, with the whole and with explicit ranges, and the view destroyed *)

BufferInputs ==
  {[op |-> "input", fn |-> "anv_CreateBufferView",
    buffer |-> [bo |-> [size |-> 2 * MaxBufferSize], offset |-> b, size |-> s,
                usage |-> u],
    info |-> [format |-> f, offset |-> o, range |-> r],
    alloc_ok |-> a] :
      b \in 0..MaxBufferOffset, s \in 0..MaxBufferSize,
      u \in SUBSET {"UNIFORM_TEXEL_BUFFER", "STORAGE_TEXEL_BUFFER"},
      f \in {R8G8B8A8_UNORM, R32G32B32A32_SFLOAT},
      o \in 0..MaxBufferSize, r \in {VK_WHOLE_SIZE, 0, 1, 2},
      a \in BOOLEAN}

InitBuffer ==
  /\ build \in Builds
  /\ proc = "running"
  /\ stderr = {}
  /\ image = [i \in ImageIds |-> NoImage]
  /\ last \in BufferInputs
  /\ device \in LayoutDevices
  /\ view = [v \in ViewIds |-> NoView]
  /\ surface_state_pool = {}

NextBuffer ==
  \/ anv_CreateBufferView_call
  \/ anv_DestroyBufferView_call

SpecBuffer == InitBuffer /\ [][NextBuffer]_vars

====
